---- MODULE Spec2Model ----
(***************************************************************************)
(* A model of the 6502 interpreter of nes-rust: the status register        *)
(* (status_flags.rs), the opcode table (opcodes.rs), the memory bus        *)
(* (bus.rs), the CPU core with its fetch-decode-execute loop (cpu.rs) and   *)
(* the parser of iNES images (rom.rs).                                     *)
(*                                                                         *)
(* Memory is kept sparse: cpu_vram and prg_rom are functions over the      *)
(* indices that hold a non-zero byte, every other index below the length   *)
(* reads as the 0 the arrays are created with.  A Rust panic (expect,      *)
(* todo!, panic!, index out of bounds, arithmetic overflow in a build with *)
(* overflow checks) is the state run = "panic".                            *)
(*                                                                         *)
(***************************************************************************)
EXTENDS Integers, Sequences, FiniteSets, TLC

VARIABLES
    program_counter,      \* CPU.program_counter : u16
    stack_pointer,        \* CPU.stack_pointer : u8
    register_accumulator, \* CPU.register_accumulator : u8
    index_register_x,     \* CPU.index_register_x : u8
    index_register_y,     \* CPU.index_register_y : u8
    status,               \* CPU.status.status : u8
    cpu_vram,             \* Bus.cpu_vram, sparse: index -> byte
    prg_rom,              \* ROM.prg_rom, sparse: index -> byte
    prg_len,              \* ROM.prg_rom.len()
    overflow_checks,      \* the build: TRUE when integer overflow panics
    callback,             \* the observer handed to execute_with_callback
    run,                  \* "new", "loaded", "running", "halted", "panic"
    calls,                \* number of calls the host has made on the CPU
    ev,                   \* the last operation: name, inputs, state before it
    ev0,                  \* the operation before the last one
    rom_raw               \* the iNES image the host hands to ROM::new

vars == <<program_counter, stack_pointer, register_accumulator,
          index_register_x, index_register_y, status, cpu_vram, prg_rom,
          prg_len, overflow_checks, callback, run, calls, ev, ev0,
          rom_raw>>

----------------------------------------------------------------------------
(* Widths and bit operations on u8 / u16.                                  *)

Byte == 0 .. 255
Word == 0 .. 65535

Bit(v, i) == (v \div (2 ^ i)) % 2

\* u8 & u8
BitAnd(v, w) ==
      Bit(v, 0) * Bit(w, 0)       + 2 * Bit(v, 1) * Bit(w, 1)
    + 4 * Bit(v, 2) * Bit(w, 2)   + 8 * Bit(v, 3) * Bit(w, 3)
    + 16 * Bit(v, 4) * Bit(w, 4)  + 32 * Bit(v, 5) * Bit(w, 5)
    + 64 * Bit(v, 6) * Bit(w, 6)  + 128 * Bit(v, 7) * Bit(w, 7)

\* u8 ^ u8
BitXor(v, w) == v + w - 2 * BitAnd(v, w)

\* u8 | u8
BitOr(v, w) == v + w - BitAnd(v, w)

\* u16::from_le_bytes([little, big])
from_le_bytes(little, big) == little + 256 * big

\* u16::to_le_bytes(value)
to_le_bytes(value) == <<value % 256, value \div 256>>

\* (b as i8) as u16: sign extension of a byte to 16 bits
SignExtend(b) == IF b >= 128 THEN b + 65280 ELSE b

----------------------------------------------------------------------------
(* status_flags.rs                                                         *)

STATUS_RESET == \h24

Carry == \h01
Zero == \h02
InterruptDisable == \h04
Decimal == \h08
B == \h10
Overflow == \h40
Negative == \h80

\* ProcessorStatus::set_flag: or with the mask, or and with its complement
set_flag(p, flag, bit) ==
    IF bit THEN BitOr(p, flag) ELSE BitAnd(p, 255 - flag)

\* ProcessorStatus::get_flag
get_flag(p, flag) == BitAnd(flag, p) # 0

\* ProcessorStatus::set_from_byte
set_from_byte(p, byte) == byte

\* ProcessorStatus::update_zero_and_negative_registers
update_zero_and_negative_registers(p, value) ==
    set_flag(set_flag(p, Zero, value = 0), Negative, BitAnd(value, \h80) # 0)

----------------------------------------------------------------------------
(* opcodes.rs: CPU_OPCODES_MAP, opcode byte -> (label, bytes, mode).       *)

CPU_OPCODES_MAP ==
       (\h69 :> [label |-> "ADC", bytes |-> 2, addressing_mode |-> "Immediate"])
    @@ (\h65 :> [label |-> "ADC", bytes |-> 2, addressing_mode |-> "ZeroPage"])
    @@ (\h75 :> [label |-> "ADC", bytes |-> 2, addressing_mode |-> "ZeroPage_X"])
    @@ (\h6D :> [label |-> "ADC", bytes |-> 3, addressing_mode |-> "Absolute"])
    @@ (\h7D :> [label |-> "ADC", bytes |-> 3, addressing_mode |-> "Absolute_X"])
    @@ (\h79 :> [label |-> "ADC", bytes |-> 3, addressing_mode |-> "Absolute_Y"])
    @@ (\h61 :> [label |-> "ADC", bytes |-> 2, addressing_mode |-> "Indirect_X"])
    @@ (\h71 :> [label |-> "ADC", bytes |-> 2, addressing_mode |-> "Indirect_Y"])
    @@ (\h29 :> [label |-> "AND", bytes |-> 2, addressing_mode |-> "Immediate"])
    @@ (\h25 :> [label |-> "AND", bytes |-> 2, addressing_mode |-> "ZeroPage"])
    @@ (\h35 :> [label |-> "AND", bytes |-> 2, addressing_mode |-> "ZeroPage_X"])
    @@ (\h2D :> [label |-> "AND", bytes |-> 3, addressing_mode |-> "Absolute"])
    @@ (\h3D :> [label |-> "AND", bytes |-> 3, addressing_mode |-> "Absolute_X"])
    @@ (\h39 :> [label |-> "AND", bytes |-> 3, addressing_mode |-> "Absolute_Y"])
    @@ (\h21 :> [label |-> "AND", bytes |-> 2, addressing_mode |-> "Indirect_X"])
    @@ (\h31 :> [label |-> "AND", bytes |-> 2, addressing_mode |-> "Indirect_Y"])
    @@ (\h0A :> [label |-> "ASL", bytes |-> 1, addressing_mode |-> "NoneAddressing"])
    @@ (\h06 :> [label |-> "ASL", bytes |-> 2, addressing_mode |-> "ZeroPage"])
    @@ (\h16 :> [label |-> "ASL", bytes |-> 2, addressing_mode |-> "ZeroPage_X"])
    @@ (\h0E :> [label |-> "ASL", bytes |-> 3, addressing_mode |-> "Absolute"])
    @@ (\h1E :> [label |-> "ASL", bytes |-> 3, addressing_mode |-> "Absolute_X"])
    @@ (\h90 :> [label |-> "BCC", bytes |-> 2, addressing_mode |-> "NoneAddressing"])
    @@ (\hB0 :> [label |-> "BCS", bytes |-> 2, addressing_mode |-> "NoneAddressing"])
    @@ (\hF0 :> [label |-> "BEQ", bytes |-> 2, addressing_mode |-> "NoneAddressing"])
    @@ (\h24 :> [label |-> "BIT", bytes |-> 2, addressing_mode |-> "ZeroPage"])
    @@ (\h2C :> [label |-> "BIT", bytes |-> 3, addressing_mode |-> "Absolute"])
    @@ (\h30 :> [label |-> "BMI", bytes |-> 2, addressing_mode |-> "NoneAddressing"])
    @@ (\hD0 :> [label |-> "BNE", bytes |-> 2, addressing_mode |-> "NoneAddressing"])
    @@ (\h10 :> [label |-> "BPL", bytes |-> 2, addressing_mode |-> "NoneAddressing"])
    @@ (\h00 :> [label |-> "BRK", bytes |-> 1, addressing_mode |-> "NoneAddressing"])
    @@ (\h50 :> [label |-> "BVC", bytes |-> 2, addressing_mode |-> "NoneAddressing"])
    @@ (\h70 :> [label |-> "BVS", bytes |-> 2, addressing_mode |-> "NoneAddressing"])
    @@ (\h18 :> [label |-> "CLC", bytes |-> 1, addressing_mode |-> "NoneAddressing"])
    @@ (\hD8 :> [label |-> "CLD", bytes |-> 1, addressing_mode |-> "NoneAddressing"])
    @@ (\h58 :> [label |-> "CLI", bytes |-> 1, addressing_mode |-> "NoneAddressing"])
    @@ (\hB8 :> [label |-> "CLV", bytes |-> 1, addressing_mode |-> "NoneAddressing"])
    @@ (\hC9 :> [label |-> "CMP", bytes |-> 2, addressing_mode |-> "Immediate"])
    @@ (\hC5 :> [label |-> "CMP", bytes |-> 2, addressing_mode |-> "ZeroPage"])
    @@ (\hD5 :> [label |-> "CMP", bytes |-> 2, addressing_mode |-> "ZeroPage_X"])
    @@ (\hCD :> [label |-> "CMP", bytes |-> 3, addressing_mode |-> "Absolute"])
    @@ (\hDD :> [label |-> "CMP", bytes |-> 3, addressing_mode |-> "Absolute_X"])
    @@ (\hD9 :> [label |-> "CMP", bytes |-> 3, addressing_mode |-> "Absolute_Y"])
    @@ (\hC1 :> [label |-> "CMP", bytes |-> 2, addressing_mode |-> "Indirect_X"])
    @@ (\hD1 :> [label |-> "CMP", bytes |-> 2, addressing_mode |-> "Indirect_Y"])
    @@ (\hE0 :> [label |-> "CPX", bytes |-> 2, addressing_mode |-> "Immediate"])
    @@ (\hE4 :> [label |-> "CPX", bytes |-> 2, addressing_mode |-> "ZeroPage"])
    @@ (\hEC :> [label |-> "CPX", bytes |-> 3, addressing_mode |-> "Absolute"])
    @@ (\hC0 :> [label |-> "CPY", bytes |-> 2, addressing_mode |-> "Immediate"])
    @@ (\hC4 :> [label |-> "CPY", bytes |-> 2, addressing_mode |-> "ZeroPage"])
    @@ (\hCC :> [label |-> "CPY", bytes |-> 3, addressing_mode |-> "Absolute"])
    @@ (\hC6 :> [label |-> "DEC", bytes |-> 2, addressing_mode |-> "ZeroPage"])
    @@ (\hD6 :> [label |-> "DEC", bytes |-> 2, addressing_mode |-> "ZeroPage_X"])
    @@ (\hCE :> [label |-> "DEC", bytes |-> 3, addressing_mode |-> "Absolute"])
    @@ (\hDE :> [label |-> "DEC", bytes |-> 3, addressing_mode |-> "Absolute_X"])
    @@ (\hCA :> [label |-> "DEX", bytes |-> 1, addressing_mode |-> "NoneAddressing"])
    @@ (\h88 :> [label |-> "DEY", bytes |-> 1, addressing_mode |-> "NoneAddressing"])
    @@ (\h08 :> [label |-> "PHP", bytes |-> 1, addressing_mode |-> "NoneAddressing"])
    @@ (\h48 :> [label |-> "PHA", bytes |-> 1, addressing_mode |-> "NoneAddressing"])
    @@ (\h28 :> [label |-> "PLP", bytes |-> 1, addressing_mode |-> "NoneAddressing"])
    @@ (\h40 :> [label |-> "RTI", bytes |-> 1, addressing_mode |-> "NoneAddressing"])
    @@ (\hAA :> [label |-> "TAX", bytes |-> 1, addressing_mode |-> "NoneAddressing"])
    @@ (\hE8 :> [label |-> "INX", bytes |-> 1, addressing_mode |-> "NoneAddressing"])
    @@ (\hA9 :> [label |-> "LDA", bytes |-> 2, addressing_mode |-> "Immediate"])
    @@ (\hA5 :> [label |-> "LDA", bytes |-> 2, addressing_mode |-> "ZeroPage"])
    @@ (\hB5 :> [label |-> "LDA", bytes |-> 2, addressing_mode |-> "ZeroPage_X"])
    @@ (\hAD :> [label |-> "LDA", bytes |-> 3, addressing_mode |-> "Absolute"])
    @@ (\hBD :> [label |-> "LDA", bytes |-> 3, addressing_mode |-> "Absolute_X"])
    @@ (\hB9 :> [label |-> "LDA", bytes |-> 3, addressing_mode |-> "Absolute_Y"])
    @@ (\hA1 :> [label |-> "LDA", bytes |-> 2, addressing_mode |-> "Indirect_X"])
    @@ (\hB1 :> [label |-> "LDA", bytes |-> 2, addressing_mode |-> "Indirect_Y"])
    @@ (\h85 :> [label |-> "STA", bytes |-> 2, addressing_mode |-> "ZeroPage"])
    @@ (\h95 :> [label |-> "STA", bytes |-> 2, addressing_mode |-> "ZeroPage_X"])
    @@ (\h8D :> [label |-> "STA", bytes |-> 2, addressing_mode |-> "Absolute"])
    @@ (\h9D :> [label |-> "STA", bytes |-> 2, addressing_mode |-> "Absolute_X"])
    @@ (\h99 :> [label |-> "STA", bytes |-> 3, addressing_mode |-> "Absolute_Y"])
    @@ (\h81 :> [label |-> "STA", bytes |-> 2, addressing_mode |-> "Indirect_X"])
    @@ (\h91 :> [label |-> "STA", bytes |-> 2, addressing_mode |-> "Indirect_Y"])
    @@ (\hE9 :> [label |-> "SBC", bytes |-> 2, addressing_mode |-> "Immediate"])
    @@ (\hE5 :> [label |-> "SBC", bytes |-> 2, addressing_mode |-> "ZeroPage"])
    @@ (\hF5 :> [label |-> "SBC", bytes |-> 2, addressing_mode |-> "ZeroPage_X"])
    @@ (\hED :> [label |-> "SBC", bytes |-> 3, addressing_mode |-> "Absolute"])
    @@ (\hFD :> [label |-> "SBC", bytes |-> 3, addressing_mode |-> "Absolute_X"])
    @@ (\hF9 :> [label |-> "SBC", bytes |-> 3, addressing_mode |-> "Absolute_Y"])
    @@ (\hE1 :> [label |-> "SBC", bytes |-> 2, addressing_mode |-> "Indirect_X"])
    @@ (\hF1 :> [label |-> "SBC", bytes |-> 2, addressing_mode |-> "Indirect_Y"])

----------------------------------------------------------------------------
(* The CPU with its bus as one record, so that the methods of cpu.rs and   *)
(* bus.rs are operators from CPU to CPU.  A method that returns a value    *)
(* and changes the CPU yields the record [cpu, ret].                       *)

CPU ==
    [program_counter |-> program_counter, stack_pointer |-> stack_pointer,
     register_accumulator |-> register_accumulator,
     index_register_x |-> index_register_x,
     index_register_y |-> index_register_y, status |-> status,
     cpu_vram |-> cpu_vram, prg_rom |-> prg_rom, prg_len |-> prg_len,
     overflow_checks |-> overflow_checks, run |-> run]

\* a Rust panic: the method does not return, the fields keep what they held
Panic(c) == [c EXCEPT !.run = "panic"]

\* the value of a read or of an address computation that panicked
Fault == -1

\* u16 + u16: panics under overflow checks, wraps otherwise
AddU16(c, v, w) ==
    IF v + w > 65535
    THEN IF c.overflow_checks THEN Fault ELSE (v + w) % 65536
    ELSE v + w

\* the byte array a, index i
Get(a, i) == IF i \in DOMAIN a THEN a[i] ELSE 0

\* the byte array a with a[i] = v
Put(a, i, v) ==
    IF v = 0
    THEN [k \in DOMAIN a \ {i} |-> a[k]]
    ELSE [k \in DOMAIN a \cup {i} |-> IF k = i THEN v ELSE a[k]]

\* [0; n]
Zeroes == [k \in {} |-> 0]

\* [little, big] as a word, unless reading one of them panicked
join_le(little, big) ==
    IF little = Fault \/ big = Fault THEN Fault
    ELSE from_le_bytes(little, big)

----------------------------------------------------------------------------
(* bus.rs                                                                  *)

RAM == \h0000
RAM_MIRRORS_END == \h1FFF
PPU_REGISTERS == \h2000
PPU_REGISTERS_MIRRORS_END == \h3FFF
ROM_START_IN_MEMORY == \h8000

\* addr & 0x07FF: the low 11 bits
\* mirror_down_addr with one address bit too many
mirror_down_addr_4k(addr) == addr % \h1000

mirror_down_addr(addr) == addr % \h0800

\* the index into prg_rom that a read of addr in 0x8000..=0xFFFF uses
\* PrgReadIndex without the mirroring of a 16 KiB PRG ROM
PrgReadIndex_linear(c, addr) == addr - \h8000

PrgReadIndex(c, addr) ==
    IF c.prg_len = \h4000 /\ addr - \h8000 >= \h4000
    THEN (addr - \h8000) % \h4000
    ELSE addr - \h8000

\* Bus::read_mem; Fault when it panics
read_mem(c, addr) ==
    IF addr >= RAM /\ addr <= RAM_MIRRORS_END
    THEN Get(c.cpu_vram, mirror_down_addr(addr))
    ELSE IF addr >= PPU_REGISTERS /\ addr <= PPU_REGISTERS_MIRRORS_END
    THEN Fault
    ELSE IF addr >= \h8000 /\ addr <= \hFFFF
    THEN IF PrgReadIndex(c, addr) < c.prg_len
         THEN Get(c.prg_rom, PrgReadIndex(c, addr))
         ELSE Fault
    ELSE 0

\* read_mem at an address whose computation may have panicked
read_at(c, addr) == IF addr = Fault THEN Fault ELSE read_mem(c, addr)

\* Mem::read_mem_u16 (the default method, which Bus keeps)
read_mem_u16(c, addr) ==
    join_le(read_mem(c, addr), read_at(c, AddU16(c, addr, 1)))

\* Bus::write_mem
\* write_mem whose default arm stores into the RAM mirror
write_mem_default_stores(c, addr, data) ==
    IF addr >= \h4000 /\ addr <= \h7FFF
    THEN [c EXCEPT !.cpu_vram = Put(@, addr % \h0800, data)]
    ELSE IF addr >= RAM /\ addr <= RAM_MIRRORS_END
    THEN [c EXCEPT !.cpu_vram = Put(@, addr % \h0800, data)]
    ELSE IF addr >= PPU_REGISTERS /\ addr <= PPU_REGISTERS_MIRRORS_END
    THEN Panic(c)
    ELSE IF addr - ROM_START_IN_MEMORY < c.prg_len
    THEN [c EXCEPT !.prg_rom = Put(@, addr - ROM_START_IN_MEMORY, data)]
    ELSE Panic(c)

\* write_mem whose PPU arm ignores the write
write_mem_ppu_ignored(c, addr, data) ==
    IF addr >= PPU_REGISTERS /\ addr <= PPU_REGISTERS_MIRRORS_END
    THEN c
    ELSE IF addr >= RAM /\ addr <= RAM_MIRRORS_END
    THEN [c EXCEPT !.cpu_vram = Put(@, addr % \h0800, data)]
    ELSE IF addr >= ROM_START_IN_MEMORY /\ addr <= \hFFFF
    THEN IF addr - ROM_START_IN_MEMORY < c.prg_len
         THEN [c EXCEPT !.prg_rom = Put(@, addr - ROM_START_IN_MEMORY, data)]
         ELSE Panic(c)
    ELSE c

write_mem(c, addr, data) ==
    IF addr >= RAM /\ addr <= RAM_MIRRORS_END
    THEN [c EXCEPT !.cpu_vram = Put(@, mirror_down_addr(addr), data)]
    ELSE IF addr >= PPU_REGISTERS /\ addr <= PPU_REGISTERS_MIRRORS_END
    THEN Panic(c)
    ELSE IF addr >= ROM_START_IN_MEMORY /\ addr <= \hFFFF
    THEN IF addr - ROM_START_IN_MEMORY < c.prg_len
         THEN [c EXCEPT !.prg_rom = Put(@, addr - ROM_START_IN_MEMORY, data)]
         ELSE Panic(c)
    ELSE c

\* write_mem at an address whose computation may have panicked, by a method
\* that may have panicked before
write_at(c, addr, data) ==
    IF c.run = "panic" THEN c
    ELSE IF addr = Fault THEN Panic(c)
    ELSE write_mem(c, addr, data)

\* Mem::write_mem_u16 (the default method): bytes[0] at addr, bytes[1] at
\* addr + 1
write_mem_u16(c, addr, value) ==
    write_at(write_mem(c, addr, to_le_bytes(value)[1]),
             AddU16(c, addr, 1), to_le_bytes(value)[2])

----------------------------------------------------------------------------
(* rom.rs: the parser of iNES images.  An image is its length and, sparse, *)
(* its non-zero bytes.                                                     *)

NES_TAG == <<\h4E, \h45, \h53, \h1A>>
PRG_ROM_PAGE_SIZE == 16384
CHR_ROM_PAGE_SIZE == 8192
TRAINER_SIZE == 512

\* a Vec<u8> of no byte
NoImage == [len |-> 0, bytes |-> Zeroes]

\* raw[i], for i < raw.len()
raw_at(raw, i) == Get(raw.bytes, i)

\* raw[start..end].to_vec(), for start <= end <= raw.len()
raw_slice(raw, start, end) ==
    [k \in {j - start : j \in {i \in DOMAIN raw.bytes :
                                    i >= start /\ i < end}} |->
        raw.bytes[k + start]]

\* v >> n
shr(v, n) == v \div (2 ^ n)

\* Err(reason.to_string())
Err(reason) == [kind |-> "Err", reason |-> reason]

\* a panic of ROM::new: a slice or an index beyond the end of raw
RomAbort == [kind |-> "panic"]

\* raw[7] & 0b0000_1100 >> 2, where >> binds tighter than &
version(raw) == BitAnd(raw_at(raw, 7), shr(12, 2))

\* raw[7] & 0b1111_0000 | raw[6] >> 4
mapper(raw) == BitOr(BitAnd(raw_at(raw, 7), \hF0), shr(raw_at(raw, 6), 4))

\* match (four_screen, mirroring)
screen_mirroring(raw) ==
    IF shr(BitAnd(raw_at(raw, 6), 8), 3) = 1 THEN "FourScreen"
    ELSE IF BitAnd(raw_at(raw, 6), 1) = 0 THEN "Horizontal"
    ELSE "Vertical"

\* ((raw[6] & 0b0000_0100) >> 2) as usize * TRAINER_SIZE
trainer(raw) == shr(BitAnd(raw_at(raw, 6), 4), 2) * TRAINER_SIZE

prg_rom_size(raw) == raw_at(raw, 4) * PRG_ROM_PAGE_SIZE

\* prg_rom_start that skips no trainer
prg_rom_start_without_trainer(raw) == 16

prg_rom_start(raw) == 16 + trainer(raw)

chr_rom_size(raw) == raw_at(raw, 5) * CHR_ROM_PAGE_SIZE

chr_rom_start(raw) == prg_rom_start(raw) + prg_rom_size(raw)

\* ROM::new from the trainer on: the two slices and the result
ROM_body(raw) ==
    IF prg_rom_start(raw) + prg_rom_size(raw) > raw.len THEN RomAbort
    ELSE IF chr_rom_start(raw) + chr_rom_size(raw) > raw.len THEN RomAbort
    ELSE [kind |-> "Ok",
          trainer |-> trainer(raw) > 0,
          mapper |-> mapper(raw),
          screen_mirroring |-> screen_mirroring(raw),
          prg_rom |-> raw_slice(raw, prg_rom_start(raw),
                                prg_rom_start(raw) + prg_rom_size(raw)),
          prg_len |-> prg_rom_size(raw),
          chr_rom |-> raw_slice(raw, chr_rom_start(raw),
                                chr_rom_start(raw) + chr_rom_size(raw)),
          chr_len |-> chr_rom_size(raw)]

\* ROM::new
ROM_new(raw) ==
    IF raw.len < 4 THEN RomAbort
    ELSE IF <<raw_at(raw, 0), raw_at(raw, 1), raw_at(raw, 2),
              raw_at(raw, 3)>> # NES_TAG
    THEN Err("Invalid NES file")
    ELSE IF raw.len < 8 THEN RomAbort
    ELSE IF version(raw) # 0 THEN Err("Only iNES version 1 supported")
    ELSE IF mapper(raw) # 0 THEN Err("Rom's mapper not supported yet")
    ELSE ROM_body(raw)

----------------------------------------------------------------------------
(* cpu.rs: the methods of CPU.                                             *)

STACK == \h100
STACK_RESET == \hFD

\* CPU::load_program, the loop: program[i] at 0x8000 + i
RECURSIVE write_program(_, _, _)
write_program(c, program, i) ==
    IF c.run = "panic" \/ i > Len(program) THEN c
    ELSE write_program(write_at(c, AddU16(c, \h8000, i - 1), program[i]),
                       program, i + 1)

\* CPU::load_program, the reset vector
write_vector(c) ==
    IF c.run = "panic" THEN c ELSE write_mem_u16(c, \hFFFC, \h8000)

\* CPU::load_program
load_program(c, program) == write_vector(write_program(c, program, 1))

\* reset_to without `self.status = ProcessorStatus::new()`
reset_to_stale_status(c, vector) ==
    IF vector = Fault THEN Panic(c)
    ELSE [c EXCEPT !.program_counter = vector,
                   !.stack_pointer = STACK_RESET,
                   !.register_accumulator = 0,
                   !.index_register_x = 0,
                   !.index_register_y = 0]

\* CPU::reset, the assignments, vector being read_mem_u16(0xFFFC)
reset_to(c, vector) ==
    IF vector = Fault THEN Panic(c)
    ELSE [c EXCEPT !.program_counter = vector,
                   !.stack_pointer = STACK_RESET,
                   !.register_accumulator = 0,
                   !.index_register_x = 0,
                   !.index_register_y = 0,
                   !.status = STATUS_RESET]

\* CPU::reset
reset(c) == reset_to(c, read_mem_u16(c, \hFFFC))

\* self.stack_pointer -= 1, after the write of stack_push
pushed(c) ==
    IF c.run = "panic" THEN c ELSE [c EXCEPT !.stack_pointer = @ - 1]

\* stack_push that wraps from 0x00 to 0xFF instead of panicking
stack_push_wrapping(c, value) ==
    [write_mem(c, STACK + c.stack_pointer, value) EXCEPT
        !.stack_pointer = (@ - 1) % 256]

\* CPU::stack_push
stack_push(c, value) ==
    IF c.stack_pointer > 0
    THEN pushed(write_mem(c, STACK + c.stack_pointer, value))
    ELSE Panic(c)

\* a stack_push that follows another statement of the method
then_push(c, value) == IF c.run = "panic" THEN c ELSE stack_push(c, value)

\* CPU::stack_push_u16: bytes[0], then bytes[1]
stack_push_u16(c, value) ==
    then_push(stack_push(c, to_le_bytes(value)[1]), to_le_bytes(value)[2])

\* CPU::stack_pull, after the read: the increment is guarded
pulled(c, value) ==
    [cpu |-> IF value = Fault THEN Panic(c)
             ELSE IF c.stack_pointer < STACK_RESET
             THEN [c EXCEPT !.stack_pointer = @ + 1]
             ELSE c,
     ret |-> value]

\* CPU::stack_pull
stack_pull(c) == pulled(c, read_mem(c, STACK + c.stack_pointer + 1))

\* u16::from_le_bytes([big, little]) of the two pulls
join_pulled(little, big) ==
    IF big.cpu.run = "panic" THEN big
    ELSE [cpu |-> big.cpu, ret |-> from_le_bytes(big.ret, little.ret)]

\* CPU::stack_pull_u16, the second pull
pull_big(little) ==
    IF little.cpu.run = "panic" THEN little
    ELSE join_pulled(little, stack_pull(little.cpu))

\* CPU::stack_pull_u16
stack_pull_u16(c) == pull_big(stack_pull(c))

\* index8 as a 16-bit addition
index8_16bit(param, index) ==
    IF param = Fault THEN Fault ELSE index + param

\* index.wrapping_add(param) as u16
index8(param, index) ==
    IF param = Fault THEN Fault ELSE (index + param) % 256

\* param.wrapping_add(index as u16)
index16(param, index) ==
    IF param = Fault THEN Fault ELSE (param + index) % 65536

\* the word at ptr and ptr.wrapping_add(1) in the zero page
deref(c, ptr) ==
    IF ptr = Fault THEN Fault
    ELSE join_le(read_mem(c, ptr), read_mem(c, (ptr + 1) % 256))

\* CPU::get_operand_address, param and param16 being the byte and the word at
\* the program counter
operand_address(c, mode, param, param16) ==
    CASE mode = "Immediate" -> c.program_counter
      [] mode = "ZeroPage" -> param
      [] mode = "ZeroPage_X" -> index8(param, c.index_register_x)
      [] mode = "ZeroPage_Y" -> index8(param, c.index_register_y)
      [] mode = "Absolute" -> param16
      [] mode = "Absolute_X" -> index16(param16, c.index_register_x)
      [] mode = "Absolute_Y" -> index16(param16, c.index_register_y)
      [] mode = "Indirect_X" -> deref(c, index8(param, c.index_register_x))
      [] mode = "Indirect_Y" -> index16(deref(c, param), c.index_register_y)
      [] OTHER -> Fault

\* CPU::get_operand_address; Fault when it panics
get_operand_address(c, mode) ==
    operand_address(c, mode, read_mem(c, c.program_counter),
                    read_mem_u16(c, c.program_counter))

\* let addr = self.get_operand_address(mode); let value = self.read_mem(addr);
read_operand(c, mode) == read_at(c, get_operand_address(c, mode))

\* let addr = self.get_operand_address(mode); self.write_mem(addr, value)
write_operand(c, mode, value) ==
    write_at(c, get_operand_address(c, mode), value)

\* self.status.update_zero_and_negative_registers(value)
update_zn(c, value) ==
    [c EXCEPT !.status = update_zero_and_negative_registers(@, value)]

\* CPU::load_accumulator
load_accumulator(c, value) ==
    update_zn([c EXCEPT !.register_accumulator = value], value)

\* add_sum with the overflow taken from the operands alone
add_sum_operand_overflow(c, value, sum) ==
    load_accumulator(
        [c EXCEPT !.status =
            set_flag(set_flag(@, Carry, sum > \hFF), Overflow,
                     BitAnd(BitXor(value, c.register_accumulator), \h80) # 0)],
        sum % 256)

\* CPU::add_width_carry, sum being A + value + carry in 16 bits
add_sum(c, value, sum) ==
    load_accumulator(
        [c EXCEPT !.status =
            set_flag(set_flag(@, Carry, sum > \hFF), Overflow,
                     BitAnd(BitAnd(BitXor(value, sum % 256),
                                   BitXor(sum % 256, c.register_accumulator)),
                            \h80) # 0)],
        sum % 256)

\* CPU::add_width_carry
add_width_carry(c, value) ==
    add_sum(c, value,
            c.register_accumulator + value
                + (IF get_flag(c.status, Carry) THEN 1 ELSE 0))

\* (value as i8).wrapping_neg() as u8 alone
neg_only(value) == (256 - value) % 256

\* ((value as i8).wrapping_neg().wrapping_sub(1)) as u8
neg_sub_1(value) == (((256 - value) % 256) + 255) % 256

\* CPU::asl
asl(c, value) ==
    [cpu |-> [c EXCEPT !.status = set_flag(@, Carry, BitAnd(value, \h80) # 0)],
     ret |-> (value * 2) % 256]

\* CPU::lsr
lsr(c, value) ==
    [cpu |-> [c EXCEPT !.status = set_flag(@, Carry, BitAnd(value, \h01) # 0)],
     ret |-> value \div 2]

\* CPU::rol: the carry it inserts is the one it has just computed
rol(c, value) ==
    [cpu |-> [c EXCEPT !.status = set_flag(@, Carry, BitAnd(value, \h80) # 0)],
     ret |-> BitOr((value * 2) % 256,
                   IF BitAnd(value, \h80) # 0 THEN 1 ELSE 0)]

\* CPU::ror: the carry it inserts is the one it has just computed
ror(c, value) ==
    [cpu |-> [c EXCEPT !.status = set_flag(@, Carry, BitAnd(value, \h01) # 0)],
     ret |-> BitOr(value \div 2,
                   IF BitAnd(value, \h01) # 0 THEN \h80 ELSE 0)]

\* CPU::branch, the taken branch
branch_to(c, relative_displacement) ==
    IF relative_displacement = Fault THEN Panic(c)
    ELSE [c EXCEPT !.program_counter =
            (((@ + 1) % 65536) + SignExtend(relative_displacement)) % 65536]

\* CPU::branch
branch(c, condition) ==
    IF condition THEN branch_to(c, read_mem(c, c.program_counter)) ELSE c

\* compare_value with the carry set by other > value
compare_value_strict(c, other, value) ==
    IF value = Fault THEN Panic(c)
    ELSE update_zn([c EXCEPT !.status = set_flag(@, Carry, other > value)],
                   (other + 256 - value) % 256)

\* CPU::compare, value being the operand
compare_value(c, other, value) ==
    IF value = Fault THEN Panic(c)
    ELSE update_zn([c EXCEPT !.status = set_flag(@, Carry, other >= value)],
                   (other + 256 - value) % 256)

\* CPU::compare
compare(c, mode, other) == compare_value(c, other, read_operand(c, mode))

\* CPU::decrement
decrement(c, value) ==
    [cpu |-> update_zn(c, (value + 255) % 256), ret |-> (value + 255) % 256]

\* CPU::increment
increment(c, value) ==
    [cpu |-> update_zn(c, (value + 1) % 256), ret |-> (value + 1) % 256]

\* the statements that follow `let value = self.read_mem(addr);` in lda, adc,
\* sbc and in the arms AND, BIT, EOR, LDX, LDY, ORA
with_value(c, label, value) ==
    IF value = Fault THEN Panic(c)
    ELSE CASE label = "LDA" -> load_accumulator(c, value)
           [] label = "ADC" -> add_width_carry(c, value)
           [] label = "SBC" -> add_width_carry(c, neg_sub_1(value))
           [] label = "AND" ->
                load_accumulator(c, BitAnd(c.register_accumulator, value))
           [] label = "BIT" ->
                update_zn([c EXCEPT !.status = set_flag(@, Overflow,
                    BitAnd(BitAnd(c.register_accumulator, value), \h40) # 0)],
                    BitAnd(c.register_accumulator, value))
           [] label = "EOR" ->
                load_accumulator(c, BitXor(c.register_accumulator, value))
           [] label = "LDX" -> update_zn([c EXCEPT !.index_register_x = value],
                                         value)
           [] label = "LDY" -> update_zn([c EXCEPT !.index_register_y = value],
                                         value)
           [] label = "ORA" ->
                load_accumulator(c, BitOr(c.register_accumulator, value))

\* CPU::lda
lda(c, mode) == with_value(c, "LDA", read_operand(c, mode))

\* CPU::sta
sta(c, mode) == write_operand(c, mode, c.register_accumulator)

\* CPU::adc
adc(c, mode) == with_value(c, "ADC", read_operand(c, mode))

\* CPU::sbc
sbc(c, mode) == with_value(c, "SBC", read_operand(c, mode))

----------------------------------------------------------------------------
(* cpu.rs: execute_with_callback, one iteration of its loop.               *)

\* self.asl(value), self.lsr(value), self.rol(value), self.ror(value),
\* self.decrement(value), self.increment(value) by the label of the arm
apply(label, c, value) ==
    CASE label = "ASL" -> asl(c, value)
      [] label = "LSR" -> lsr(c, value)
      [] label = "ROL" -> rol(c, value)
      [] label = "ROR" -> ror(c, value)
      [] label = "DEC" -> decrement(c, value)
      [] label = "INC" -> increment(c, value)

\* self.register_accumulator = self.asl(self.register_accumulator)
to_accumulator(r) == [r.cpu EXCEPT !.register_accumulator = r.ret]

\* let result = self.asl(value); self.write_mem(addr, result);
to_memory(c, label, addr, value) ==
    IF value = Fault THEN Panic(c)
    ELSE write_mem(apply(label, c, value).cpu, addr,
                   apply(label, c, value).ret)

\* the arms of DEC and INC, and the memory arm of ASL, LSR, ROL, ROR
modify(c, label, addr) == to_memory(c, label, addr, read_at(c, addr))

\* update_zero_and_negative_registers(self.register_accumulator), which ends
\* the arms of ASL, LSR, ROL, ROR
accumulator_zn(c) ==
    IF c.run = "panic" THEN c ELSE update_zn(c, c.register_accumulator)

\* the arms of ASL, LSR, ROL, ROR
shift(c, label, mode) ==
    accumulator_zn(
        IF mode = "NoneAddressing"
        THEN to_accumulator(apply(label, c, c.register_accumulator))
        ELSE modify(c, label, get_operand_address(c, mode)))

\* self.program_counter = addr
jump_to(c, addr) ==
    IF c.run = "panic" THEN c
    ELSE IF addr = Fault THEN Panic(c)
    ELSE [c EXCEPT !.program_counter = addr]

\* the JMP arm, indirect_ref
indirect_ref(c, addr) ==
    IF addr = Fault THEN Fault
    ELSE IF addr % 256 = \hFF
    THEN join_le(read_mem(c, addr), read_mem(c, (addr \div 256) * 256))
    ELSE read_mem_u16(c, addr)

\* the JMP arm
jmp(c, mode) ==
    IF mode = "Absolute"
    THEN jump_to(c, get_operand_address(c, mode))
    ELSE jump_to(c, indirect_ref(c, read_mem_u16(c, c.program_counter)))

\* the JSR arm, after stack_push_u16
jsr_to(c, mode) == jump_to(c, get_operand_address(c, mode))

\* the JSR arm, return_address being self.program_counter + 1
jsr_from(c, mode, return_address) ==
    IF return_address = Fault THEN Panic(c)
    ELSE jsr_to(stack_push_u16(c, return_address), mode)

\* the JSR arm
jsr(c, mode) == jsr_from(c, mode, AddU16(c, c.program_counter, 1))

\* self.status.set_from_byte(status), status being the pull
pulled_status(r) ==
    IF r.cpu.run = "panic" THEN r.cpu
    ELSE [r.cpu EXCEPT !.status = set_from_byte(@, r.ret)]

\* self.load_accumulator(value), value being the pull
pulled_accumulator(r) ==
    IF r.cpu.run = "panic" THEN r.cpu ELSE load_accumulator(r.cpu, r.ret)

\* self.program_counter = pc, pc being the pull
pulled_pc(r) == jump_to(r.cpu, r.ret)

\* self.program_counter = self.stack_pull_u16() + 1
pulled_pc_plus_1(r) ==
    IF r.cpu.run = "panic" THEN r.cpu
    ELSE jump_to(r.cpu, AddU16(r.cpu, r.ret, 1))

\* the PLP arm
plp(c) == pulled_status(stack_pull(c))

\* the RTI arm, after the status
rti_pc(c) == IF c.run = "panic" THEN c ELSE pulled_pc(stack_pull_u16(c))

\* the RTI arm
rti(c) == rti_pc(plp(c))

\* the RTS arm
rts(c) == pulled_pc_plus_1(stack_pull_u16(c))

\* self.status.set_flag(flag, bit)
status_flag(c, flag, bit) == [c EXCEPT !.status = set_flag(@, flag, bit)]

\* `match opcode.label`: the handler of one opcode record
handler(c, opcode) ==
    CASE opcode.label = "ADC" -> adc(c, opcode.addressing_mode)
      [] opcode.label \in {"AND", "BIT", "EOR", "LDX", "LDY", "ORA"} ->
            with_value(c, opcode.label,
                       read_operand(c, opcode.addressing_mode))
      [] opcode.label \in {"ASL", "LSR", "ROL", "ROR"} ->
            shift(c, opcode.label, opcode.addressing_mode)
      [] opcode.label = "BCC" -> branch(c, ~get_flag(c.status, Carry))
      [] opcode.label = "BCS" -> branch(c, get_flag(c.status, Carry))
      [] opcode.label = "BEQ" -> branch(c, get_flag(c.status, Zero))
      [] opcode.label = "BMI" -> branch(c, get_flag(c.status, Negative))
      [] opcode.label = "BNE" -> branch(c, ~get_flag(c.status, Zero))
      [] opcode.label = "BPL" -> branch(c, ~get_flag(c.status, Negative))
      [] opcode.label = "BRK" -> [c EXCEPT !.run = "halted"]
      [] opcode.label = "BVC" -> branch(c, ~get_flag(c.status, Overflow))
      [] opcode.label = "BVS" -> branch(c, get_flag(c.status, Overflow))
      [] opcode.label = "CLC" -> status_flag(c, Carry, FALSE)
      [] opcode.label = "CLD" -> status_flag(c, Decimal, FALSE)
      [] opcode.label = "CLI" -> status_flag(c, InterruptDisable, FALSE)
      [] opcode.label = "CLV" -> status_flag(c, Overflow, FALSE)
      [] opcode.label = "CMP" ->
            compare(c, opcode.addressing_mode, c.register_accumulator)
      [] opcode.label = "CPX" ->
            compare(c, opcode.addressing_mode, c.index_register_x)
      [] opcode.label = "CPY" ->
            compare(c, opcode.addressing_mode, c.index_register_y)
      [] opcode.label \in {"DEC", "INC"} ->
            modify(c, opcode.label,
                   get_operand_address(c, opcode.addressing_mode))
      [] opcode.label = "DEX" ->
            [decrement(c, c.index_register_x).cpu EXCEPT
                !.index_register_x = decrement(c, @).ret]
      [] opcode.label = "DEY" ->
            [decrement(c, c.index_register_y).cpu EXCEPT
                !.index_register_y = decrement(c, @).ret]
      [] opcode.label = "INX" ->
            [increment(c, c.index_register_x).cpu EXCEPT
                !.index_register_x = increment(c, @).ret]
      [] opcode.label = "INY" ->
            [increment(c, c.index_register_y).cpu EXCEPT
                !.index_register_y = increment(c, @).ret]
      [] opcode.label = "JMP" -> jmp(c, opcode.addressing_mode)
      [] opcode.label = "JSR" -> jsr(c, opcode.addressing_mode)
      [] opcode.label = "LDA" -> lda(c, opcode.addressing_mode)
      [] opcode.label = "NOP" -> c
      [] opcode.label = "PHA" -> stack_push(c, c.register_accumulator)
      [] opcode.label = "PHP" ->
            stack_push(status_flag(c, B, TRUE), set_flag(c.status, B, TRUE))
      [] opcode.label = "PLA" -> pulled_accumulator(stack_pull(c))
      [] opcode.label = "PLP" -> plp(c)
      [] opcode.label = "RTI" -> rti(c)
      [] opcode.label = "RTS" -> rts(c)
      [] opcode.label = "SBC" -> sbc(c, opcode.addressing_mode)
      [] opcode.label = "SEC" -> status_flag(c, Carry, TRUE)
      [] opcode.label = "SED" -> status_flag(c, Decimal, TRUE)
      [] opcode.label = "SEI" -> status_flag(c, InterruptDisable, TRUE)
      [] opcode.label = "STA" -> sta(c, opcode.addressing_mode)
      [] opcode.label = "STX" ->
            write_operand(c, opcode.addressing_mode, c.index_register_x)
      [] opcode.label = "STY" ->
            write_operand(c, opcode.addressing_mode, c.index_register_y)
      [] opcode.label = "TAX" ->
            update_zn([c EXCEPT !.index_register_x = c.register_accumulator],
                      c.register_accumulator)
      [] opcode.label = "TAY" ->
            update_zn([c EXCEPT !.index_register_y = c.register_accumulator],
                      c.register_accumulator)
      [] opcode.label = "TSX" ->
            update_zn([c EXCEPT !.index_register_x = c.stack_pointer],
                      c.stack_pointer)
      [] opcode.label = "TXA" -> load_accumulator(c, c.index_register_x)
      [] opcode.label = "TXS" ->
            update_zn([c EXCEPT !.stack_pointer = c.index_register_x],
                      c.index_register_x)
      [] opcode.label = "TYA" -> load_accumulator(c, c.index_register_y)
      [] OTHER -> Panic(c)

\* CPU::fetch
fetch(c) == read_mem(c, c.program_counter)

\* let code = self.fetch(); self.program_counter += 1;
after_fetch(c) ==
    IF fetch(c) = Fault \/ AddU16(c, c.program_counter, 1) = Fault
    THEN Panic(c)
    ELSE [c EXCEPT !.program_counter = AddU16(c, @, 1)]

\* opcodes.get(&code).expect(..), then the handler, c being the CPU after
\* the fetch
dispatch(c, code) ==
    IF c.run = "panic" THEN c
    ELSE IF code \notin DOMAIN CPU_OPCODES_MAP THEN Panic(c)
    ELSE handler(c, CPU_OPCODES_MAP[code])

\* the iteration up to the end of the handler
after_handler(c) == dispatch(after_fetch(c), fetch(c))

\* if program_counter_state == self.program_counter { += bytes - 1 }
advance(c, program_counter_state, bytes) ==
    IF program_counter_state = c.program_counter
    THEN IF AddU16(c, c.program_counter, bytes - 1) = Fault THEN Panic(c)
         ELSE [c EXCEPT !.program_counter = AddU16(c, @, bytes - 1)]
    ELSE c

\* the end of the iteration: BRK has returned, a panic has unwound, or the
\* length of the instruction is added
finish(c, program_counter_state, code) ==
    IF c.run # "running" THEN c
    ELSE advance(c, program_counter_state, CPU_OPCODES_MAP[code].bytes)

\* one iteration of the loop, after the callback has run
execute_iteration(c) ==
    finish(after_handler(c), after_fetch(c).program_counter, fetch(c))

\* the observer of main.rs on a key press: cpu.write_mem(0xff, 0x77)
handle_user_input(c, key) == IF key THEN write_mem(c, \hFF, \h77) ELSE c

----------------------------------------------------------------------------
(* The state machine.                                                      *)

\* calls the host makes on one CPU (load_program, reset)
MaxCalls == 3
\* stack methods the host calls in a row
MaxStackCalls == 2

\* bytes the programs and the host use as data
ByteSamples == {\h00, \h01, \h42, \h7F, \h80, \hFA, \hFF}

\* status bytes with each of C, Z, V, N clear and set
FlagSamples == {\h24, \h25, \h26, \h64, \hA4, \hE7}

\* ROM::empty(), the cartridge of the test fixture
ROM_empty == [prg_rom |-> Zeroes, prg_len |-> \h7FFF]

\* a 16 KiB cartridge: LDA #0x42, BRK at 0x8000, reset vector 0xC000
ROM_16k ==
    [prg_rom |-> (0 :> \hA9) @@ (1 :> \h42) @@ (\h3FFD :> \hC0),
     prg_len |-> \h4000]

\* a 32 KiB cartridge: BCC +6 at 0x8000, reset vector 0x8000
ROM_32k ==
    [prg_rom |-> (0 :> \h90) @@ (1 :> \h06) @@ (\h7FFD :> \h80),
     prg_len |-> \h8000]

\* the 32 KiB cartridge with 0xFF, which is no opcode, as its last byte
ROM_32k_ff ==
    [prg_rom |-> (0 :> \h90) @@ (1 :> \h06) @@ (\h7FFD :> \h80)
                    @@ (\h7FFF :> \hFF),
     prg_len |-> \h8000]

\* CPU::new(Bus::new(rom))
new(rom, checks) ==
    [program_counter |-> 0, stack_pointer |-> STACK_RESET,
     register_accumulator |-> 0, index_register_x |-> 0,
     index_register_y |-> 0, status |-> STATUS_RESET,
     cpu_vram |-> Zeroes, prg_rom |-> rom.prg_rom, prg_len |-> rom.prg_len,
     overflow_checks |-> checks, run |-> "new"]

\* the programs of the tests of cpu.rs and of the scenarios of the
\* specification, handed to load_program
Programs ==
    {<<\hA9, v, \h00>> : v \in ByteSamples}
    \cup {<<\hA9, v, \h48, \h28, \h00>> : v \in ByteSamples}
    \cup {<<\hA9, v, \h69, \h50, \h00>> : v \in ByteSamples}
    \cup {<<\hA9, v, \hC9, \h42, \hB0, \h02, \h00>> : v \in ByteSamples}
    \cup {<<\hA9, \h81, \h48, \hA9, \h02, \h48, \hA9, \hFA, \h48, \h40>>,
          <<\hA9, \hC0, \hAA, \hE8, \h00>>,
          <<\hA9, \h42, \h85, \h10>>,
          <<\hA9, \hFF, \h69, \h10, \hB0, \h06, \h00>>,
          <<\h90, \h06, \h00>>,
          <<\h90, \hFF, \h00>>,
          <<\h08>>, <<\h28>>, <<\h40>>,
          <<\hA9, \hFA, \h48>>,
          <<\h4C, \hFD, \hCA>>,
          <<\h6C, \hFE, \hCA>>,
          <<\h20, \hFD, \hCA>>,
          <<\h20, \hFD, \hCA, \h60>>,
          <<\h60>>}
    \cup {<<\hA9, v, \h48, \h28, \h08, \h00>> : v \in ByteSamples}
    \cup {<<\h6C, \hFF, \h00>>,
          <<\hA9, \h10, \h49, \h10>>,
          <<\hE6, \h10>>,
          <<\hA2, \h42>>,
          <<\hA0, \h42>>,
          <<\hA9, \hE3, \h4A>>,
          <<\hA9, \h66, \h09, \h98>>,
          <<\hA9, \h42, \h48, \hA9, \h10, \h68>>,
          <<\hA9, \h82, \h2A>>,
          <<\hA9, \h83, \h6A>>,
          <<\hA9, \h42, \hA8>>,
          <<\hBA>>,
          <<\hA9, \hFF, \h48, \h48, \h48, \h40>>}
    \cup {<<\hA9, v, \h29, \h8F, \h00>> : v \in ByteSamples}
    \cup {<<\hA9, v, \hE9, \h00, \h00>> : v \in ByteSamples}
    \cup {<<\hCA, \h00>>,
          <<\h88, \h00>>,
          <<\hA9, \h01, \hAA, \hCA, \h00>>,
          <<\hC6, \h10, \h00>>,
          <<\h8A>>, <<\h98>>, <<\hC8>>,
          <<\hA9, \h42, \h8D, \h00, \h02, \h00>>,
          <<\hA9, \h42, \h99, \h00, \h02, \h00>>,
          <<\hA9, \h41, \h48, \hBA>>,
          <<\hA9, \hFF, \hAA, \hE8, \hE8, \h00>>}

\* the opcodes of BCC, BCS, BEQ, BNE, BMI, BPL, BVC, BVS
BranchOpcodes == {\h90, \hB0, \hF0, \hD0, \h30, \h10, \h50, \h70}

NoEvent(c) ==
    [op |-> "init", code |-> -1, arg |-> -1, ret |-> -1, pre |-> c]

\* the CPU is c and no operation has been made on it
Holds(c) ==
    /\ program_counter = c.program_counter
    /\ stack_pointer = c.stack_pointer
    /\ register_accumulator = c.register_accumulator
    /\ index_register_x = c.index_register_x
    /\ index_register_y = c.index_register_y
    /\ status = c.status
    /\ cpu_vram = c.cpu_vram
    /\ prg_rom = c.prg_rom
    /\ prg_len = c.prg_len
    /\ overflow_checks = c.overflow_checks
    /\ run = c.run
    /\ calls = 0
    /\ ev = NoEvent(c)
    /\ ev0 = NoEvent(c)

\* the CPU is c and the host holds no image
Is(c) ==
    /\ Holds(c)
    /\ rom_raw = NoImage

Becomes(c) ==
    /\ program_counter' = c.program_counter
    /\ stack_pointer' = c.stack_pointer
    /\ register_accumulator' = c.register_accumulator
    /\ index_register_x' = c.index_register_x
    /\ index_register_y' = c.index_register_y
    /\ status' = c.status
    /\ cpu_vram' = c.cpu_vram
    /\ prg_rom' = c.prg_rom
    /\ prg_len' = c.prg_len
    /\ overflow_checks' = c.overflow_checks
    /\ run' = c.run

Event(op, code, arg, ret, c) ==
    /\ ev' = [op |-> op, code |-> code, arg |-> arg, ret |-> ret, pre |-> c]
    /\ ev0' = ev
    /\ rom_raw' = rom_raw

\* a CPU the host has built around one of the cartridges
Init ==
    /\ \E rom \in {ROM_empty, ROM_16k, ROM_32k, ROM_32k_ff},
          checks \in BOOLEAN :
            Is(new(rom, checks))
    /\ callback \in {"none", "input"}

\* cpu.load_program(program)
LoadProgram ==
    /\ run = "new"
    /\ calls < MaxCalls
    /\ \E program \in Programs :
        /\ Becomes([load_program(CPU, program) EXCEPT
                        !.run = IF @ = "panic" THEN @ ELSE "loaded"])
        /\ Event("load_program", -1, program, -1, CPU)
    /\ calls' = calls + 1
    /\ UNCHANGED callback

\* cpu.reset(), followed by cpu.execute() or cpu.execute_with_callback(..)
Reset ==
    /\ run \in {"new", "loaded", "halted"}
    /\ calls < MaxCalls
    /\ Becomes([reset(CPU) EXCEPT
                    !.run = IF @ = "panic" THEN @ ELSE "running"])
    /\ Event("reset", -1, -1, -1, CPU)
    /\ calls' = calls + 1
    /\ UNCHANGED callback

\* the fetch, the handler and the length advancement on the CPU c that the
\* callback has left
Iterate(c, key) ==
    /\ Becomes(execute_iteration(c))
    /\ Event("step", fetch(c), key, -1, c)

\* one iteration of the loop of execute_with_callback: the callback, the
\* fetch, the handler, the length advancement
Step ==
    /\ run = "running"
    /\ \E key \in (IF callback = "input" THEN BOOLEAN ELSE {FALSE}) :
        Iterate(handle_user_input(CPU, key), key)
    /\ UNCHANGED <<callback, calls>>

Next == LoadProgram \/ Reset \/ Step

Spec == Init /\ [][Next]_vars

----------------------------------------------------------------------------
(* Branches: load_program(<<branch, displacement>>), reset, the flags set   *)
(* by the host as test_clc does, then execute().                           *)

InitBranch ==
    /\ \E op \in BranchOpcodes, d \in Byte, p \in FlagSamples :
        Is([reset(load_program(new(ROM_empty, TRUE), <<op, d>>)) EXCEPT
                !.status = p, !.run = "running"])
    /\ callback = "none"

SpecBranch == InitBranch /\ [][Step]_vars

----------------------------------------------------------------------------
(* The stack methods, called by the host on a CPU whose stack pointer it   *)
(* has set (test_stack_u16 calls them on a fresh CPU).                     *)

InitStack ==
    /\ \E s \in Byte : Is([new(ROM_empty, TRUE) EXCEPT !.stack_pointer = s])
    /\ callback = "none"

HostCall(op, arg, r) ==
    /\ Becomes(r.cpu)
    /\ Event(op, -1, arg, r.ret, CPU)
    /\ calls' = calls + 1
    /\ UNCHANGED callback

StackPush ==
    /\ run = "new" /\ calls < MaxStackCalls
    /\ \E value \in {\h42, \hFA} :
        HostCall("stack_push", value,
                 [cpu |-> stack_push(CPU, value), ret |-> -1])

StackPushU16 ==
    /\ run = "new" /\ calls < MaxStackCalls
    /\ \E value \in {\hCAFE, \h8002} :
        HostCall("stack_push_u16", value,
                 [cpu |-> stack_push_u16(CPU, value), ret |-> -1])

StackPull ==
    /\ run = "new" /\ calls < MaxStackCalls
    /\ HostCall("stack_pull", -1, stack_pull(CPU))

StackPullU16 ==
    /\ run = "new" /\ calls < MaxStackCalls
    /\ HostCall("stack_pull_u16", -1, stack_pull_u16(CPU))

NextStack == StackPush \/ StackPushU16 \/ StackPull \/ StackPullU16

SpecStack == InitStack /\ [][NextStack]_vars

----------------------------------------------------------------------------
(* ADC: load_program(<<0x69, value>>), reset, the accumulator and the carry *)
(* set by the host, then execute().                                        *)

InitAlu ==
    /\ \E a \in Byte, value \in Byte, p \in {STATUS_RESET, STATUS_RESET + Carry} :
        Is([reset(load_program(new(ROM_empty, TRUE), <<\h69, value>>)) EXCEPT
                !.register_accumulator = a, !.status = p, !.run = "running"])
    /\ callback = "none"

SpecAlu == InitAlu /\ [][Step]_vars

----------------------------------------------------------------------------
(* SBC: load_program(<<0xE9, value>>), reset, the accumulator and the carry *)
(* set by the host, then execute().                                        *)

InitSbc ==
    /\ \E a \in Byte, value \in Byte, p \in {STATUS_RESET, STATUS_RESET + Carry} :
        Is([reset(load_program(new(ROM_empty, TRUE), <<\hE9, value>>)) EXCEPT
                !.register_accumulator = a, !.status = p, !.run = "running"])
    /\ callback = "none"

SpecSbc == InitSbc /\ [][Step]_vars

----------------------------------------------------------------------------
(* CMP, CPX, CPY: load_program(<<opcode, value>>), reset, the registers and *)
(* the flags set by the host, then execute().  The three registers hold    *)
(* three different bytes.                                                  *)

\* the opcodes of CMP, CPX, CPY with an immediate operand
CompareOpcodes == {\hC9, \hE0, \hC0}

InitCompare ==
    /\ \E op \in CompareOpcodes, r \in Byte, value \in Byte,
          p \in {STATUS_RESET, \hE7} :
        Is([reset(load_program(new(ROM_empty, TRUE), <<op, value>>)) EXCEPT
                !.register_accumulator = r,
                !.index_register_x = (r + 1) % 256,
                !.index_register_y = (r + 2) % 256,
                !.status = p, !.run = "running"])
    /\ callback = "none"

SpecCompare == InitCompare /\ [][Step]_vars

----------------------------------------------------------------------------
(* BIT and ASL on memory, as test_bit and test_asl_mem run them:           *)
(* write_mem(0x10, value), load_program(<<LDA #a, opcode 0x10>>), reset,   *)
(* then execute().                                                         *)

\* the opcodes of BIT and ASL with a zero page operand
MemoryOpcodes == {\h24, \h06}

InitMem ==
    /\ \E op \in MemoryOpcodes, a \in ByteSamples \cup {\hC0}, value \in Byte :
        Is([reset(load_program(write_mem(new(ROM_empty, TRUE), \h10, value),
                               <<\hA9, a, op, \h10>>))
                EXCEPT !.run = "running"])
    /\ callback = "none"

SpecMem == InitMem /\ [][Step]_vars

----------------------------------------------------------------------------
(* The shift methods asl, lsr, rol, ror, called by the host on a CPU whose *)
(* carry it has set.                                                       *)

\* shift methods the host calls in a row
MaxShiftCalls == 2

InitShift ==
    /\ \E p \in {STATUS_RESET, STATUS_RESET + Carry} :
        Is([new(ROM_empty, TRUE) EXCEPT !.status = p])
    /\ callback = "none"

Asl ==
    /\ run = "new" /\ calls < MaxShiftCalls
    /\ \E value \in ByteSamples : HostCall("asl", value, asl(CPU, value))

Lsr ==
    /\ run = "new" /\ calls < MaxShiftCalls
    /\ \E value \in ByteSamples : HostCall("lsr", value, lsr(CPU, value))

Rol ==
    /\ run = "new" /\ calls < MaxShiftCalls
    /\ \E value \in ByteSamples : HostCall("rol", value, rol(CPU, value))

Ror ==
    /\ run = "new" /\ calls < MaxShiftCalls
    /\ \E value \in ByteSamples : HostCall("ror", value, ror(CPU, value))

NextShift == Asl \/ Lsr \/ Rol \/ Ror

SpecShift == InitShift /\ [][NextShift]_vars

----------------------------------------------------------------------------
(* The loop of execute_with_callback statement by statement: the call of   *)
(* the callback, then the rest of the iteration.  run = "running" is the   *)
(* top of the loop, run = "fetching" the point after the callback.         *)

\* the values of rng.gen_range(1..16) the callback of main.rs draws; 0x0A is
\* the opcode of ASL A
RandomSamples == {1, 10, 15}

\* callback_main with the writes left out
callback_main_lost(c, key, random) == c

\* the closure of main.rs: handle_user_input, then write_mem(0xfe, random)
callback_main(c, key, random) ==
    write_mem(handle_user_input(c, key), \hFE, random)

\* callback(self), for the closure of main.rs and for that of execute
call_callback(c, kind, key, random) ==
    IF kind = "input" THEN callback_main(c, key, random) ELSE c

\* programs that read or execute the bytes the callback writes: LDA $FF;
\* LDA $FE; RTI to 0x00FE
LoopPrograms ==
    {<<\hA5, \hFF, \h00>>,
     <<\hA5, \hFE, \hAA, \h00>>,
     <<\hA9, \hFE, \h48, \hA9, \h00, \h48, \hA9, \h24, \h48, \h40>>}

InitLoop ==
    /\ \E program \in LoopPrograms :
        Is([reset(load_program(new(ROM_empty, TRUE), program)) EXCEPT
                !.run = "running"])
    /\ callback \in {"none", "input"}

\* callback(self)
Callback ==
    /\ run = "running"
    /\ \E key \in BOOLEAN, random \in RandomSamples :
        /\ Becomes([call_callback(CPU, callback, key, random) EXCEPT
                        !.run = IF @ = "panic" THEN @ ELSE "fetching"])
        /\ Event("callback", -1, <<key, random>>, -1, CPU)
    /\ UNCHANGED <<callback, calls>>

\* the rest of the iteration: the fetch, the handler, the length advancement
Fetch ==
    /\ run = "fetching"
    /\ Becomes(execute_iteration([CPU EXCEPT !.run = "running"]))
    /\ Event("step", fetch(CPU), -1, -1, [CPU EXCEPT !.run = "running"])
    /\ UNCHANGED <<callback, calls>>

NextLoop == Callback \/ Fetch

SpecLoop == InitLoop /\ [][NextLoop]_vars

----------------------------------------------------------------------------
(* The bus alone: reads and writes issued by the host on a new CPU.        *)

MaxBusCalls == 3

\* addresses on both sides of every boundary of the memory map, and three
\* mirrors of one RAM cell
BusAddrs ==
    {\h0000, \h0010, \h0810, \h1810, \h07FF, \h1FFF, \h2000, \h3FFF,
     \h4000, \h7FFF, \h8000, \hBFFF, \hC000, \hFFFF}

BusData == {\h00, \h42}

\* cpu.read_mem(addr) called by the host: the byte, or the abort
bus_read(c, addr) ==
    [cpu |-> IF read_mem(c, addr) = Fault THEN Panic(c) ELSE c,
     ret |-> read_mem(c, addr)]

\* cpu.write_mem(addr, data) called by the host
bus_write(c, addr, data) == [cpu |-> write_mem(c, addr, data), ret |-> -1]

InitBus ==
    /\ \E rom \in {ROM_empty, ROM_16k, ROM_32k} : Is(new(rom, TRUE))
    /\ callback = "none"

ReadMem ==
    /\ run = "new" /\ calls < MaxBusCalls
    /\ \E addr \in BusAddrs :
        HostCall("read_mem", <<addr>>, bus_read(CPU, addr))

WriteMem ==
    /\ run = "new" /\ calls < MaxBusCalls
    /\ \E addr \in BusAddrs, data \in BusData :
        HostCall("write_mem", <<addr, data>>, bus_write(CPU, addr, data))

NextBus == ReadMem \/ WriteMem

SpecBus == InitBus /\ [][NextBus]_vars

----------------------------------------------------------------------------
(* get_operand_address called by the host, as in                            *)
(* test_get_operand_address_zero_page, for every operand byte.              *)

MaxAddressCalls == 1

AddressingModes ==
    {"Immediate", "ZeroPage", "ZeroPage_X", "ZeroPage_Y", "Absolute",
     "Absolute_X", "Absolute_Y", "Indirect_X", "Indirect_Y", "NoneAddressing"}

IndexSamples == {\h00, \h01, \h80, \hFF}

\* the bytes the host writes to 0x0000..0x0100 before the call: none is 0,
\* and the one at 0x0100 differs from the one at 0x0000
ZeroPageBytes == [k \in 0 .. \h100 |-> 1 + ((k * 7) % 255)]

\* cpu.get_operand_address(&mode) called by the host
host_get_operand_address(c, mode) ==
    [cpu |-> IF get_operand_address(c, mode) = Fault THEN Panic(c) ELSE c,
     ret |-> get_operand_address(c, mode)]

InitAddress ==
    /\ \E b \in Byte, x \in IndexSamples :
        Is([reset(load_program(
                [new(ROM_empty, TRUE) EXCEPT !.cpu_vram = ZeroPageBytes],
                <<b>>))
            EXCEPT !.index_register_x = x,
                   !.index_register_y = (x + 2) % 256,
                   !.run = "new"])
    /\ callback = "none"

GetOperandAddress ==
    /\ run = "new" /\ calls < MaxAddressCalls
    /\ \E mode \in AddressingModes :
        HostCall("get_operand_address", mode,
                 host_get_operand_address(CPU, mode))

NextAddress == GetOperandAddress

SpecAddress == InitAddress /\ [][NextAddress]_vars

----------------------------------------------------------------------------
(* ROM::new called by the host on an image it has read, as in the tests of *)
(* rom.rs; an accepted image becomes the cartridge of a new CPU as in      *)
(* main.                                                                   *)

MaxRomCalls == 1

\* offsets on both sides of every place where the PRG ROM and the CHR ROM
\* can start and end, with and without trainer, for one and two PRG pages
ImageMarks ==
    {16, 17, 527, 528, 16399, 16400, 16911, 16912, 24591, 24592, 25103,
     25104, 32783, 32784, 33295, 33296}

ImageLengths ==
    {0, 3, 4, 7, 8, 15, 16, 528, 1024, 16400, 16912, 24592, 25103, 25104,
     32784, 33296}

\* the bytes of an image that is long enough: the header, then a byte that
\* tells its offset at every mark
image_bytes(tag, b4, b5, b6, b7) ==
    [i \in 0 .. 7 \cup ImageMarks |->
        IF i < 4 THEN (IF tag THEN NES_TAG[i + 1] ELSE i)
        ELSE IF i = 4 THEN b4
        ELSE IF i = 5 THEN b5
        ELSE IF i = 6 THEN b6
        ELSE IF i = 7 THEN b7
        ELSE 1 + (i % 251)]

\* the first len bytes of an image
image(len, bytes) ==
    [len |-> len,
     bytes |-> [i \in {j \in DOMAIN bytes : j < len /\ bytes[j] # 0} |->
                    bytes[i]]]

\* ROM::new(raw), then CPU::new(Bus::new(rom)) when it returns Ok
rom_new(c, result) ==
    [cpu |-> IF result.kind = "panic" THEN Panic(c)
             ELSE IF result.kind = "Ok" THEN new(result, c.overflow_checks)
             ELSE c,
     ret |-> result]

InitRom ==
    /\ Holds(new(ROM_empty, TRUE))
    /\ \E tag \in BOOLEAN, b4 \in {0, 1, 2}, b5 \in {0, 1},
          b6 \in {\h00, \h01, \h04, \h09, \h10},
          b7 \in {\h00, \h01, \h02, \h04, \h08, \h0C, \h0D, \hF0},
          len \in ImageLengths :
        rom_raw = image(len, image_bytes(tag, b4, b5, b6, b7))
    /\ callback = "none"

RomNew ==
    /\ run = "new" /\ calls < MaxRomCalls
    /\ HostCall("rom_new", rom_raw, rom_new(CPU, ROM_new(rom_raw)))

NextRom == RomNew

SpecRom == InitRom /\ [][NextRom]_vars

----------------------------------------------------------------------------
(* Properties.                                                             *)

\* the last operation was an iteration of the loop that fetched `code`
Stepped(code) == ev.op = "step" /\ ev.code = code

\* the carry, zero, overflow and negative bits of a status byte
C_of(p) == Bit(p, 0)
Z_of(p) == Bit(p, 1)
V_of(p) == Bit(p, 6)
N_of(p) == Bit(p, 7)

\* C1: in every state reachable from reset by executing opcodes of the
\* table, bit 5 of the status register is 1.
C1_Bit5AlwaysSet == Bit(status, 5) = 1

BranchTaken(code, p) ==
    CASE code = \h90 -> C_of(p) = 0
      [] code = \hB0 -> C_of(p) = 1
      [] code = \hF0 -> Z_of(p) = 1
      [] code = \hD0 -> Z_of(p) = 0
      [] code = \h30 -> N_of(p) = 1
      [] code = \h10 -> N_of(p) = 0
      [] code = \h50 -> V_of(p) = 0
      [] code = \h70 -> V_of(p) = 1

\* C3: after a branch whose displacement byte d lies at address da, the next
\* opcode is fetched at (da + 1 + signextend(d)) mod 65536 when the branch
\* condition holds and at da + 1 when it does not, for every d.
C3_BranchTarget ==
    (ev.op = "step" /\ ev.code \in BranchOpcodes) =>
        LET da == (ev.pre.program_counter + 1) % 65536
            d == read_mem(ev.pre, da)
            disp == IF d >= 128 THEN d - 256 ELSE d
        IN  /\ run = "running"
            /\ program_counter =
                  IF BranchTaken(ev.code, ev.pre.status)
                  THEN (da + 1 + disp + 65536) % 65536
                  ELSE (da + 1) % 65536

\* the opcode bytes of JMP absolute, JMP indirect, JSR, RTS and RTI
RedirectOpcodes == {\h4C, \h6C, \h20, \h60, \h40}

\* C4: after the handler of JMP, JSR, RTS or RTI has set the program counter
\* to its target, the loop adds nothing to it: the next opcode is fetched at
\* the target.
C4_RedirectKeepsTarget ==
    (ev.op = "step" /\ ev.code \in RedirectOpcodes) =>
        /\ run = "running"
        /\ program_counter = after_handler(ev.pre).program_counter

\* C5: from every stack pointer s from which the push returns, stack_push(b)
\* then stack_pull returns b with SP = s, and stack_push_u16(v) then
\* stack_pull_u16 returns v with SP = s.
C5_PushPullRoundTrip ==
    /\ (ev0.op = "stack_push" /\ ev.op = "stack_pull") =>
            /\ ev.ret = ev0.arg
            /\ stack_pointer = ev0.pre.stack_pointer
    /\ (ev0.op = "stack_push_u16" /\ ev.op = "stack_pull_u16") =>
            /\ ev.ret = ev0.arg
            /\ stack_pointer = ev0.pre.stack_pointer

\* the stack methods
StackOps == {"stack_push", "stack_push_u16", "stack_pull", "stack_pull_u16"}

\* C6: the stack pointer wraps modulo 256 and no stack method aborts:
\* stack_push at SP = 0x00 stores at 0x0100 and leaves SP = 0xFF, stack_pull
\* at SP = 0xFF reads 0x0100 and leaves SP = 0x00.
C6_StackWraps ==
    /\ ev.op \in StackOps => run # "panic"
    /\ (ev.op = "stack_push" /\ ev.pre.stack_pointer = 0) =>
            /\ Get(cpu_vram, 256) = ev.arg
            /\ stack_pointer = 255
    /\ (ev.op = "stack_pull" /\ ev.pre.stack_pointer = 255) =>
            /\ ev.ret = Get(ev.pre.cpu_vram, 256)
            /\ stack_pointer = 0

\* C7: for every SP = s in 0x01..0xFE, stack_push(b) stores b at 0x0100 + s
\* and leaves SP = s - 1, and stack_pull leaves SP = s + 1 and returns the
\* byte at 0x0100 + s + 1.
C7_PushPullStep ==
    LET s == ev.pre.stack_pointer IN
    /\ (ev.op = "stack_push" /\ s \in 1 .. 254) =>
            /\ Get(cpu_vram, 256 + s) = ev.arg
            /\ stack_pointer = s - 1
    /\ (ev.op = "stack_pull" /\ s \in 1 .. 254) =>
            /\ ev.ret = Get(ev.pre.cpu_vram, 256 + s + 1)
            /\ stack_pointer = s + 1

\* C8: stack_push_u16(v) from SP = s leaves the high byte of v at 0x0100 + s
\* and the low byte at 0x0100 + s - 1; stack_pull_u16 takes the first byte
\* it pulls as the low byte and the second as the high byte.
C8_WordLayout ==
    LET s == ev.pre.stack_pointer IN
    /\ (ev.op = "stack_push_u16" /\ run # "panic") =>
            /\ Get(cpu_vram, 256 + s) = ev.arg \div 256
            /\ Get(cpu_vram, 256 + s - 1) = ev.arg % 256
    /\ (ev.op = "stack_pull_u16" /\ s < 251) =>
            ev.ret = Get(ev.pre.cpu_vram, 256 + s + 1)
                     + 256 * Get(ev.pre.cpu_vram, 256 + s + 2)

\* C9: JSR at address a pushes a + 2 and sets the program counter to its
\* operand; RTS sets the program counter to the pulled word + 1 and leaves
\* SP two higher, so that it returns to a + 3.
C9_JsrRts ==
    LET a == ev.pre.program_counter
        s == ev.pre.stack_pointer
    IN
    /\ Stepped(\h20) =>
            /\ run = "running"
            /\ program_counter =
                  read_mem(ev.pre, a + 1) + 256 * read_mem(ev.pre, a + 2)
            /\ stack_pointer = s - 2
            /\ stack_pull_u16(CPU).ret = a + 2
    /\ Stepped(\h60) =>
            /\ run = "running"
            /\ program_counter = (stack_pull_u16(ev.pre).ret + 1) % 65536
            /\ stack_pointer = s + 2

\* C10: ADC with accumulator A, operand M and carry-in C leaves
\* A = (A + M + C) mod 256, C = 1 iff A + M + C > 0xFF, V = 1 iff the sign of
\* the result differs from the sign of A and from the sign of M, Z = 1 iff
\* the new A is 0 and N = bit 7 of the new A.
C10_Adc ==
    Stepped(\h69) =>
        LET A == ev.pre.register_accumulator
            M == read_mem(ev.pre, (ev.pre.program_counter + 1) % 65536)
            sum == A + M + C_of(ev.pre.status)
            result == sum % 256
        IN  /\ run = "running"
            /\ register_accumulator = result
            /\ C_of(status) = (IF sum > 255 THEN 1 ELSE 0)
            /\ V_of(status) =
                  (IF Bit(A, 7) # Bit(result, 7) /\ Bit(M, 7) # Bit(result, 7)
                   THEN 1 ELSE 0)
            /\ Z_of(status) = (IF result = 0 THEN 1 ELSE 0)
            /\ N_of(status) = Bit(result, 7)

\* C10 witness: 0x50 + 0x50 with carry clear gives 0xA0 with V and N set and
\* C clear
C10_Witness ==
    /\ Stepped(\h69)
    /\ ev.pre.register_accumulator = 80
    /\ read_mem(ev.pre, ev.pre.program_counter + 1) = 80
    /\ C_of(ev.pre.status) = 0
    /\ register_accumulator = 160
    /\ V_of(status) = 1
    /\ N_of(status) = 1
    /\ C_of(status) = 0

\* C11: SBC with operand M gives the A, C, V, Z and N of ADC with operand
\* 255 - M, for every A, M and carry-in: A = (A - M - (1 - C)) mod 256 and
\* C = 1 iff no borrow occurred.
C11_Sbc ==
    Stepped(\hE9) =>
        LET A == ev.pre.register_accumulator
            M == read_mem(ev.pre, (ev.pre.program_counter + 1) % 65536)
            sum == A + (255 - M) + C_of(ev.pre.status)
            result == sum % 256
        IN  /\ run = "running"
            /\ register_accumulator = result
            /\ register_accumulator
                  = (A - M - (1 - C_of(ev.pre.status)) + 512) % 256
            /\ C_of(status) = (IF sum > 255 THEN 1 ELSE 0)
            /\ C_of(status)
                  = (IF A - M - (1 - C_of(ev.pre.status)) >= 0 THEN 1 ELSE 0)
            /\ V_of(status) =
                  (IF Bit(A, 7) # Bit(result, 7)
                      /\ Bit(255 - M, 7) # Bit(result, 7)
                   THEN 1 ELSE 0)
            /\ Z_of(status) = (IF result = 0 THEN 1 ELSE 0)
            /\ N_of(status) = Bit(result, 7)

\* C11 witness: 0x00 - 0x80 with carry clear gives 0x7F with C clear
C11_Witness ==
    /\ Stepped(\hE9)
    /\ ev.pre.register_accumulator = 0
    /\ read_mem(ev.pre, ev.pre.program_counter + 1) = 128
    /\ C_of(ev.pre.status) = 0
    /\ register_accumulator = 127
    /\ C_of(status) = 0

\* the register that the compare instruction `code` compares
Compared(code, c) ==
    CASE code = \hC9 -> c.register_accumulator
      [] code = \hE0 -> c.index_register_x
      [] code = \hC0 -> c.index_register_y

\* C12: CMP, CPX and CPY with register value reg and operand M set C iff
\* reg >= M, Z iff reg = M and N to bit 7 of (reg - M) mod 256, and leave the
\* registers, V, the other flags and memory as they were.
C12_Compare ==
    (ev.op = "step" /\ ev.code \in CompareOpcodes) =>
        LET reg == Compared(ev.code, ev.pre)
            M == read_mem(ev.pre, (ev.pre.program_counter + 1) % 65536)
        IN  /\ run = "running"
            /\ C_of(status) = (IF reg >= M THEN 1 ELSE 0)
            /\ Z_of(status) = (IF reg = M THEN 1 ELSE 0)
            /\ N_of(status) = Bit((reg - M + 256) % 256, 7)
            /\ V_of(status) = V_of(ev.pre.status)
            /\ \A i \in 2 .. 5 : Bit(status, i) = Bit(ev.pre.status, i)
            /\ register_accumulator = ev.pre.register_accumulator
            /\ index_register_x = ev.pre.index_register_x
            /\ index_register_y = ev.pre.index_register_y
            /\ stack_pointer = ev.pre.stack_pointer
            /\ cpu_vram = ev.pre.cpu_vram
            /\ prg_rom = ev.pre.prg_rom

\* C12 witness: CPX with X = 0x42 below the operand 0xC2, as in test_cmp,
\* with V set before and after
C12_Witness ==
    /\ Stepped(\hE0)
    /\ ev.pre.index_register_x = 66
    /\ read_mem(ev.pre, ev.pre.program_counter + 1) = 194
    /\ V_of(ev.pre.status) = 1
    /\ C_of(status) = 0
    /\ Z_of(status) = 0
    /\ N_of(status) = 1
    /\ V_of(status) = 1

\* C13: BIT with accumulator A and operand M sets Z iff (A & M) = 0, V to
\* bit 6 of M and N to bit 7 of M, whatever A is, and leaves A unchanged.
C13_Bit ==
    Stepped(\h24) =>
        LET A == ev.pre.register_accumulator
            M == read_mem(ev.pre,
                          read_mem(ev.pre, (ev.pre.program_counter + 1) % 65536))
        IN  /\ run = "running"
            /\ Z_of(status) = (IF BitAnd(A, M) = 0 THEN 1 ELSE 0)
            /\ V_of(status) = Bit(M, 6)
            /\ N_of(status) = Bit(M, 7)
            /\ register_accumulator = A

\* C14: rol returns ((value << 1) mod 256) | old C and ror returns
\* (value >> 1) | (old C << 7), old C being the carry before the call; the
\* new C is the bit shifted out.
C14_Rotate ==
    /\ ev.op = "rol" =>
            /\ ev.ret = BitOr((ev.arg * 2) % 256, C_of(ev.pre.status))
            /\ C_of(status) = Bit(ev.arg, 7)
    /\ ev.op = "ror" =>
            /\ ev.ret = BitOr(ev.arg \div 2, 128 * C_of(ev.pre.status))
            /\ C_of(status) = Bit(ev.arg, 0)

\* C15: ASL on memory writes the result back to the resolved address, leaves
\* A unchanged and sets Z and N from the result written to memory.
C15_ShiftMemory ==
    Stepped(\h06) =>
        LET addr == read_mem(ev.pre, (ev.pre.program_counter + 1) % 65536)
            result == (read_mem(ev.pre, addr) * 2) % 256
        IN  /\ run = "running"
            /\ read_mem(CPU, addr) = result
            /\ register_accumulator = ev.pre.register_accumulator
            /\ Z_of(status) = (IF result = 0 THEN 1 ELSE 0)
            /\ N_of(status) = Bit(result, 7)

\* the byte that a pull from the stack pointer of c takes, on a stack that
\* wraps inside page 1
TopOfStack(c) == read_mem(c, 256 + ((c.stack_pointer + 1) % 256))

\* C16: PLP sets P to the byte pulled from the stack with bit 5 forced to 1.
C16_Plp ==
    Stepped(\h28) =>
        /\ run = "running"
        /\ status = BitOr(TopOfStack(ev.pre), 32)

\* C17: RTI pulls one byte into P with bit 5 forced to 1 and bit 4 cleared,
\* then pulls a 16-bit value into the program counter, and leaves SP three
\* higher.
C17_Rti ==
    Stepped(\h40) =>
        /\ run = "running"
        /\ status = BitOr(TopOfStack(ev.pre), 32) - 16 * Bit(TopOfStack(ev.pre), 4)
        /\ program_counter = stack_pull_u16(stack_pull(ev.pre).cpu).ret
        /\ stack_pointer = (ev.pre.stack_pointer + 3) % 256

\* C18: PHP stores P | 0b0011_0000 on the stack, for every reachable P.
C18_Php ==
    Stepped(\h08) =>
        /\ run = "running"
        /\ read_mem(CPU, 256 + ev.pre.stack_pointer) = BitOr(ev.pre.status, 48)

\* C19: JMP indirect with operand pointer ptr sets the program counter to
\* low | (high << 8), low read from ptr and high from
\* (ptr & 0xFF00) | ((ptr + 1) & 0x00FF); JMP absolute sets it to its operand.
C19_Jmp ==
    LET a == ev.pre.program_counter
        ptr == read_mem(ev.pre, a + 1) + 256 * read_mem(ev.pre, a + 2)
    IN
    /\ Stepped(\h4C) =>
            /\ run = "running"
            /\ program_counter = ptr
    /\ Stepped(\h6C) =>
            /\ run = "running"
            /\ program_counter =
                  read_mem(ev.pre, ptr)
                  + 256 * read_mem(ev.pre,
                                   (ptr \div 256) * 256 + ((ptr + 1) % 256))

\* the mnemonics of the required instruction subset
RequiredMnemonics ==
    {"LDA", "LDX", "LDY", "STA", "STX", "STY", "ADC", "SBC",
     "AND", "ORA", "EOR", "BIT", "ASL", "LSR", "ROL", "ROR",
     "INC", "INX", "INY", "DEC", "DEX", "DEY", "CMP", "CPX", "CPY",
     "BCC", "BCS", "BEQ", "BNE", "BMI", "BPL", "BVC", "BVS",
     "JMP", "JSR", "RTS", "PHA", "PLA", "PHP", "PLP",
     "CLC", "SEC", "CLD", "SED", "CLI", "SEI", "CLV",
     "TAX", "TAY", "TSX", "TXA", "TYA", "TXS", "NOP", "BRK"}

\* the opcode bytes that the tests of cpu.rs execute for EOR, INC, JMP, JSR,
\* LDX, LDY, LSR, ORA, PLA, ROL, ROR, RTS, TAY and TSX
TestedOpcodes ==
    {\h49, \hE6, \h4C, \h6C, \h20, \hA2, \hA0, \h4A, \h09, \h68, \h2A, \h6A,
     \h60, \hA8, \hBA}

\* C20: every mnemonic of the required subset has an opcode byte in the
\* table, so that fetching such an opcode does not abort as unknown.
C20_TableCoversSubset ==
    /\ \A m \in RequiredMnemonics :
            \E code \in DOMAIN CPU_OPCODES_MAP : CPU_OPCODES_MAP[code].label = m
    /\ (ev.op = "step" /\ ev.code \in TestedOpcodes) => run # "panic"

\* the registers and the memory of c, the program counter apart
Untouched(c) ==
    /\ register_accumulator = c.register_accumulator
    /\ index_register_x = c.index_register_x
    /\ index_register_y = c.index_register_y
    /\ status = c.status
    /\ stack_pointer = c.stack_pointer
    /\ cpu_vram = c.cpu_vram
    /\ prg_rom = c.prg_rom

\* C21: when the byte fetched is not a key of the opcode table, execution
\* aborts at the lookup, which names the byte, and no handler runs: A, X, Y,
\* P, SP and memory are as before the fetch.
C21_UnknownOpcode ==
    (ev.op = "step" /\ ev.code # Fault /\ ev.code \notin DOMAIN CPU_OPCODES_MAP)
        => /\ run = "panic"
           /\ after_fetch(ev.pre).run # "panic"
           /\ Untouched(ev.pre)

\* C23: execute returns exactly when the fetched opcode is BRK; at the
\* return A, X, Y, P, SP and memory are as before the fetch of the BRK and
\* the program counter is the address of the BRK + 1.
C23_BrkReturns ==
    ev.op = "step" =>
        /\ run = "halted" => ev.code = 0
        /\ ev.code = 0 =>
            /\ run = "halted"
            /\ program_counter = (ev.pre.program_counter + 1) % 65536
            /\ Untouched(ev.pre)

\* C28: 16-bit address arithmetic wraps modulo 65536 and does not abort:
\* the fetch of an opcode at 0xFFFF leaves the program counter at 0x0000,
\* and a 16-bit read at 0xFFFF takes its high byte from 0x0000.
C28_AddressWraps ==
    /\ (Stepped(0) /\ ev.pre.program_counter = 65535) =>
            /\ run = "halted"
            /\ program_counter = 0
    /\ read_mem(CPU, 65535) # Fault =>
            read_mem_u16(CPU, 65535)
                = read_mem(CPU, 65535) + 256 * read_mem(CPU, 0)

\* C22: in a run of execute_with_callback the callback and the fetch
\* alternate, starting with the callback: the callback runs once before each
\* fetch, that of the terminating BRK included, on the CPU that the complete
\* previous instruction has left, and the bytes it writes to RAM are those
\* that the following fetch and operand read observe.
C22_CallbackAlternates ==
    /\ ev.op = "step" =>
            /\ ev0.op = "callback"
            /\ callback = "input" =>
                    /\ read_mem(ev.pre, \hFE) = ev0.arg[2]
                    /\ ev0.arg[1] => read_mem(ev.pre, \hFF) = \h77
                    /\ ev.pre.program_counter = \hFE => ev.code = ev0.arg[2]
            /\ callback = "none" => ev.pre = [ev0.pre EXCEPT !.run = "running"]
    /\ ev.op = "callback" =>
            /\ ev0.op \in {"init", "step"}
            /\ run = "fetching"
            /\ ev0.op = "step" => ev.pre = execute_iteration(ev0.pre)
            /\ ev0.op = "init" => ev.pre = ev0.pre
    /\ ev.op = "init" => run = "running"
    /\ run \in {"halted", "panic"} => ev.op = "step"
    /\ (Stepped(\hA5) /\ callback = "input" /\ run = "running") =>
            register_accumulator =
                IF read_mem(ev.pre, (ev.pre.program_counter + 1) % 65536) = \hFF
                THEN (IF ev0.arg[1] THEN \h77 ELSE 0)
                ELSE ev0.arg[2]

\* C22 witness: the fetch at 0x00FE has executed the byte 0x0A (ASL A) that
\* the callback had just written there, turning A = 0x24 into 0x48, and the
\* callback has run again before the fetch of the BRK at 0x00FF
C22_Witness ==
    /\ Stepped(0)
    /\ ev0.op = "callback"
    /\ ev0.pre.program_counter = \hFF
    /\ ev0.pre.register_accumulator = \h48
    /\ run = "halted"

\* the event is the bus access op to an address of lo..hi
Accessed(op, lo, hi) ==
    /\ ev.op = op
    /\ ev.arg[1] >= lo
    /\ ev.arg[1] <= hi

\* the RAM addresses that can read non-zero before or after the event: the
\* four mirrors of every cell that holds a byte, and the sampled addresses
RamProbes ==
    {a \in {k + \h0800 * j :
                k \in DOMAIN cpu_vram \cup DOMAIN ev.pre.cpu_vram
                        \cup {0, \h10, \h7FF},
                j \in 0 .. 3} \cup BusAddrs : a <= \h1FFF}

\* the PRG offsets that can read non-zero, and the first and last of each
\* 16 KiB half
PrgProbes ==
    DOMAIN prg_rom \cup {0, 1, \h3FFF, \h4000, \h7FFE, \h7FFF}

\* C24: after any sequence of bus writes every RAM address reads what its
\* cell a & 0x07FF reads; a read right after write(a, v) in 0x0000..0x1FFF
\* returns v, and the write changes the four addresses that share a's low 11
\* bits and no other.
C24_RamMirrors ==
    /\ \A a \in RamProbes : read_mem(CPU, a) = read_mem(CPU, a % \h0800)
    /\ Accessed("write_mem", 0, \h1FFF) =>
            /\ run = "new"
            /\ read_mem(CPU, ev.arg[1]) = ev.arg[2]
            /\ \A a \in RamProbes :
                read_mem(CPU, a) =
                    IF a % \h0800 = ev.arg[1] % \h0800
                    THEN ev.arg[2]
                    ELSE read_mem(ev.pre, a)
            /\ prg_rom = ev.pre.prg_rom
    /\ (Accessed("read_mem", 0, \h1FFF) /\ ev0.op = "write_mem"
            /\ ev0.arg[1] = ev.arg[1]) => ev.ret = ev0.arg[2]

\* C24 witness: 0x42 written to 0x1810 is read back from 0x1810 and is what
\* 0x0010 and 0x0810 read
C24_Witness ==
    /\ Accessed("read_mem", \h1810, \h1810)
    /\ ev0.op = "write_mem"
    /\ ev0.arg = <<\h1810, \h42>>
    /\ ev.ret = \h42
    /\ read_mem(CPU, \h0010) = \h42
    /\ read_mem(CPU, \h0810) = \h42

\* C25: with a PRG ROM of 0x4000 bytes read(a) = read(a + 0x4000) for every a
\* in 0x8000..0xBFFF; with a PRG ROM of 0x8000 bytes read(a) is
\* PRG[a - 0x8000] for every a in 0x8000..0xFFFF.
C25_PrgMirrors ==
    /\ prg_len = \h4000 =>
            \A k \in PrgProbes :
                k < \h4000 =>
                    /\ read_mem(CPU, \h8000 + k) = Get(prg_rom, k)
                    /\ read_mem(CPU, \hC000 + k) = read_mem(CPU, \h8000 + k)
    /\ prg_len = \h8000 =>
            \A k \in PrgProbes :
                read_mem(CPU, \h8000 + k) = Get(prg_rom, k)
    /\ (Accessed("read_mem", \h8000, \hFFFF) /\ prg_len \in {\h4000, \h8000}) =>
            /\ run = "new"
            /\ ev.ret = read_mem(ev.pre, ev.arg[1])

\* C25 witness: on the 16 KiB cartridge the byte written to 0xBFFF is read at
\* 0xFFFF
C25_Witness ==
    /\ prg_len = \h4000
    /\ Accessed("read_mem", \hFFFF, \hFFFF)
    /\ ev0.op = "write_mem"
    /\ ev0.arg = <<\hBFFF, \h42>>
    /\ ev.ret = \h42

\* C26: a read of an address in 0x4000..0x7FFF returns 0 whatever was written
\* before; a write there changes no byte of RAM or PRG ROM and does not abort.
C26_UnmappedIgnored ==
    /\ \A a \in {\h4000, \h4010, \h4810, \h5FFF, \h6000, \h7FFF} :
            read_mem(CPU, a) = 0
    /\ Accessed("read_mem", \h4000, \h7FFF) =>
            /\ ev.ret = 0
            /\ run = "new"
    /\ Accessed("write_mem", \h4000, \h7FFF) =>
            /\ run = "new"
            /\ cpu_vram = ev.pre.cpu_vram
            /\ prg_rom = ev.pre.prg_rom

\* C26 witness: 0x42 was written to 0x7FFF and the read of 0x7FFF returns 0
C26_Witness ==
    /\ Accessed("read_mem", \h7FFF, \h7FFF)
    /\ ev0.op = "write_mem"
    /\ ev0.arg = <<\h7FFF, \h42>>
    /\ ev.ret = 0
    /\ run = "new"

\* C27: every read and every write of an address in 0x2000..0x3FFF aborts,
\* and the aborted write has changed no byte of RAM or PRG ROM; an access
\* outside 0x2000..0x3FFF aborts only in the PRG ROM arm, on an index beyond
\* the PRG ROM, never as an access of the PPU region.
C27_PpuAborts ==
    /\ ev.op \in {"read_mem", "write_mem"} =>
            /\ Accessed(ev.op, \h2000, \h3FFF) =>
                    /\ run = "panic"
                    /\ cpu_vram = ev.pre.cpu_vram
                    /\ prg_rom = ev.pre.prg_rom
            /\ (run = "panic" /\ ~Accessed(ev.op, \h2000, \h3FFF)) =>
                    /\ ev.arg[1] >= \h8000
                    /\ (IF ev.op = "read_mem"
                        THEN PrgReadIndex(ev.pre, ev.arg[1])
                        ELSE ev.arg[1] - \h8000) >= prg_len
    /\ Accessed("read_mem", \h2000, \h3FFF) => ev.ret = Fault

\* C27 witness: the write of 0x42 to 0x3FFF has aborted after a write to RAM
C27_Witness ==
    /\ Accessed("write_mem", \h3FFF, \h3FFF)
    /\ ev.arg[2] = \h42
    /\ ev0.op = "write_mem"
    /\ ev0.arg = <<\h1FFF, \h42>>
    /\ run = "panic"

\* the operand byte of the call of get_operand_address
OperandByte == read_mem(ev.pre, ev.pre.program_counter)

\* the word whose two bytes are at ptr and at (ptr + 1) mod 256
ZeroPageWord(ptr) ==
    read_mem(ev.pre, ptr) + 256 * read_mem(ev.pre, (ptr + 1) % 256)

\* C29: for every operand byte b and index value the effective address of
\* ZeroPage,X is (b + X) mod 256 and of ZeroPage,Y is (b + Y) mod 256, below
\* 0x0100; for (Indirect,X) the pointer is (b + X) mod 256 and the address
\* bytes are read from pointer and (pointer + 1) mod 256; for (Indirect),Y
\* they are read from b and (b + 1) mod 256 and Y is added modulo 65536.
C29_ZeroPageWraps ==
    ev.op = "get_operand_address" =>
        /\ ev.arg = "ZeroPage_X" =>
                /\ ev.ret = (OperandByte + ev.pre.index_register_x) % 256
                /\ ev.ret < \h0100
        /\ ev.arg = "ZeroPage_Y" =>
                /\ ev.ret = (OperandByte + ev.pre.index_register_y) % 256
                /\ ev.ret < \h0100
        /\ ev.arg = "Indirect_X" =>
                ev.ret =
                    ZeroPageWord((OperandByte + ev.pre.index_register_x) % 256)
        /\ ev.arg = "Indirect_Y" =>
                ev.ret =
                    (ZeroPageWord(OperandByte) + ev.pre.index_register_y)
                        % 65536
        /\ ev.arg # "NoneAddressing" => run = "new"

\* C29 witness: (Indirect,X) with b = 0x7F and X = 0x80: the pointer is 0xFF
\* and the high byte of the address is read from 0x0000, not from 0x0100
C29_Witness ==
    /\ ev.op = "get_operand_address"
    /\ ev.arg = "Indirect_X"
    /\ OperandByte = \h7F
    /\ ev.pre.index_register_x = \h80
    /\ ev.ret = ZeroPageBytes[\hFF] + 256 * ZeroPageBytes[0]
    /\ ev.ret # ZeroPageBytes[\hFF] + 256 * ZeroPageBytes[\h100]

\* the opcodes, among those the programs execute, of the instructions that
\* hand their result to update_zero_and_negative_registers: LDA, AND, ADC,
\* SBC, TAX, INX, DEX, DEY, DEC, and EOR, INC, LDX, LDY, ORA, PLA, TAY, TXA,
\* TYA, INY
ZNOpcodes ==
    {\hA9, \h29, \h69, \hE9, \hAA, \hE8, \hCA, \h88, \hC6,
     \h49, \hE6, \hA2, \hA0, \h09, \h68, \hA8, \h8A, \h98, \hC8}

\* the result of the instruction just executed: the register or the
\* zero-page cell it has written
ZNResult ==
    CASE ev.code \in {\hA9, \h29, \h69, \hE9, \h49, \h09, \h68, \h8A, \h98} ->
            register_accumulator
      [] ev.code \in {\hAA, \hE8, \hCA, \hA2} -> index_register_x
      [] ev.code \in {\h88, \hA0, \hA8, \hC8} -> index_register_y
      [] ev.code \in {\hC6, \hE6} ->
            read_mem(CPU, read_mem(ev.pre, ev.pre.program_counter + 1))

\* after the instruction Z and N describe its result and the other bits of P
\* are those before it (ADC and SBC also write C and V)
ZNUpdated ==
    /\ run = "running"
    /\ Z_of(status) = (IF ZNResult = 0 THEN 1 ELSE 0)
    /\ N_of(status) = (IF ZNResult >= \h80 THEN 1 ELSE 0)
    /\ BitAnd(status, IF ev.code \in {\h69, \hE9} THEN \h3C ELSE \h7D)
            = BitAnd(ev.pre.status,
                     IF ev.code \in {\h69, \hE9} THEN \h3C ELSE \h7D)

\* C30: after each of LDA, TAX, INX, DEX, DEY, INC, DEC, AND, ADC and SBC
\* (and LDX, LDY, TAY, TXA, TYA, INY, ORA, EOR, PLA) Z is set iff the result
\* is 0 and N iff the result is >= 0x80, and no bit of P other than Z and N is
\* changed by the update.
C30_ZeroNegative ==
    (ev.op = "step" /\ ev.code \in ZNOpcodes) => ZNUpdated

\* the image starts with the NES tag
Tagged(r) ==
    /\ r.len >= 4
    /\ <<raw_at(r, 0), raw_at(r, 1), raw_at(r, 2), raw_at(r, 3)>> = NES_TAG

\* C31: ROM::new, given a header that starts with the NES tag, returns
\* Err("Only iNES version 1 supported") whenever bit 2 or bit 3 of header
\* byte 7 is set, whatever the other header bits.
C31_VersionRejected ==
    (/\ ev.op = "rom_new"
     /\ Tagged(ev.arg)
     /\ ev.arg.len >= 16
     /\ (Bit(raw_at(ev.arg, 7), 2) = 1 \/ Bit(raw_at(ev.arg, 7), 3) = 1))
        => /\ ev.ret.kind = "Err"
           /\ ev.ret.reason = "Only iNES version 1 supported"

\* where the PRG ROM of the image of the event starts
PrgStart == 16 + (IF Bit(raw_at(ev.arg, 6), 2) = 1 THEN 512 ELSE 0)

\* C32: for an accepted image the PRG ROM is the (byte 4 x 16384) bytes from
\* offset 16, or from 16 + 512 when bit 2 of byte 6 is set, the CHR ROM the
\* (byte 5 x 8192) bytes right after the PRG ROM, and the trainer field is
\* true iff bit 2 of byte 6 is set.
C32_PrgChrLayout ==
    (ev.op = "rom_new" /\ ev.ret.kind = "Ok") =>
        /\ ev.ret.trainer = (Bit(raw_at(ev.arg, 6), 2) = 1)
        /\ ev.ret.prg_len = raw_at(ev.arg, 4) * 16384
        /\ ev.ret.chr_len = raw_at(ev.arg, 5) * 8192
        /\ PrgStart + ev.ret.prg_len + ev.ret.chr_len <= ev.arg.len
        /\ \A k \in DOMAIN ev.ret.prg_rom : k < ev.ret.prg_len
        /\ \A k \in DOMAIN ev.ret.chr_rom : k < ev.ret.chr_len
        /\ \A j \in DOMAIN ev.arg.bytes \cup ImageMarks :
            /\ (j >= PrgStart /\ j < PrgStart + ev.ret.prg_len) =>
                    Get(ev.ret.prg_rom, j - PrgStart) = raw_at(ev.arg, j)
            /\ (j >= PrgStart + ev.ret.prg_len
                    /\ j < PrgStart + ev.ret.prg_len + ev.ret.chr_len) =>
                    Get(ev.ret.chr_rom, j - PrgStart - ev.ret.prg_len)
                        = raw_at(ev.arg, j)
        /\ prg_rom = ev.ret.prg_rom
        /\ prg_len = ev.ret.prg_len

\* C32 witness: an image with trainer, one PRG page and one CHR page is
\* accepted; its PRG ROM starts with the byte at offset 528 and its CHR ROM
\* with the byte at offset 16912
C32_Witness ==
    /\ ev.op = "rom_new"
    /\ ev.ret.kind = "Ok"
    /\ ev.ret.trainer
    /\ ev.ret.prg_len = 16384
    /\ ev.ret.chr_len = 8192
    /\ Get(ev.ret.prg_rom, 0) = 1 + (528 % 251)
    /\ Get(ev.ret.chr_rom, 0) = 1 + (16912 % 251)

\* C33: ROM::new never aborts: for every byte sequence, those shorter than
\* 4, 8 or 16 bytes and those shorter than the sizes declared in bytes 4 and
\* 5 included, it returns Ok or Err with a reason.
C33_NeverAborts ==
    ev.op = "rom_new" =>
        /\ ev.ret.kind \in {"Ok", "Err"}
        /\ run = "new"

\* the length of the instruction of an entry of the table: the opcode byte
\* and the operand bytes of its addressing mode (the branches, recorded with
\* NoneAddressing, have one operand byte)
InstructionLength(opcode) ==
    IF opcode.addressing_mode \in {"Absolute", "Absolute_X", "Absolute_Y"}
    THEN 3
    ELSE IF opcode.addressing_mode = "NoneAddressing"
            /\ opcode.label \notin {"BCC", "BCS", "BEQ", "BNE", "BMI", "BPL",
                                    "BVC", "BVS"}
    THEN 1
    ELSE 2

\* C34: the length recorded for every opcode of the table is 1 plus the
\* operand size of its addressing mode; hence after an instruction that does
\* not redirect, PC addresses the byte right after its last operand byte.
C34_LengthMatchesMode ==
    /\ \A code \in DOMAIN CPU_OPCODES_MAP :
            CPU_OPCODES_MAP[code].bytes
                = InstructionLength(CPU_OPCODES_MAP[code])
    /\ (/\ ev.op = "step"
        /\ ev.code \in DOMAIN CPU_OPCODES_MAP
        /\ ev.code \notin BranchOpcodes \cup {\h40}
        /\ run = "running")
            => program_counter =
                    ev.pre.program_counter
                        + InstructionLength(CPU_OPCODES_MAP[ev.code])

\* C35: stack_push with SP = 0x00 aborts without writing memory and without
\* changing SP; stack_push with any SP in 0x01..0xFF does not abort (it
\* stores the byte at 0x0100 + SP and decrements SP).
C35_PushOverflow ==
    ev.op = "stack_push" =>
        IF ev.pre.stack_pointer = 0
        THEN /\ run = "panic"
             /\ stack_pointer = 0
             /\ cpu_vram = ev.pre.cpu_vram
             /\ prg_rom = ev.pre.prg_rom
        ELSE /\ run = "new"
             /\ stack_pointer = ev.pre.stack_pointer - 1
             /\ read_mem(CPU, \h0100 + ev.pre.stack_pointer) = ev.arg

\* C35 witness: a push with SP = 0x01 has stored its byte at 0x0101 and left
\* SP = 0x00, and the next push has aborted
C35_Witness ==
    /\ ev.op = "stack_push"
    /\ ev0.op = "stack_push"
    /\ ev0.pre.stack_pointer = 1
    /\ ev.pre.stack_pointer = 0
    /\ read_mem(CPU, \h0101) = ev0.arg
    /\ run = "panic"

\* C36: a bus write to an address in 0x8000..0xFFFF never aborts, with a
\* 16 KiB as with a 32 KiB PRG ROM, and after any sequence of such writes on
\* a 16 KiB cartridge read(a) = read(a + 0x4000) for every a in
\* 0x8000..0xBFFF.
C36_PrgWritesSafe ==
    /\ (Accessed("write_mem", \h8000, \hFFFF)
            /\ ev.pre.prg_len \in {\h4000, \h8000}) => run = "new"
    /\ prg_len = \h4000 =>
            \A k \in PrgProbes :
                k < \h4000 =>
                    read_mem(CPU, \h8000 + k) = read_mem(CPU, \hC000 + k)

\* C37: PHP modifies only the stack: after PHP the status register has the
\* value it had before the instruction (B is set in the pushed copy only),
\* A, X and Y are unchanged and SP is one lower.
C37_PhpKeepsStatus ==
    Stepped(\h08) =>
        /\ run = "running"
        /\ status = ev.pre.status
        /\ register_accumulator = ev.pre.register_accumulator
        /\ index_register_x = ev.pre.index_register_x
        /\ index_register_y = ev.pre.index_register_y
        /\ stack_pointer = (ev.pre.stack_pointer - 1) % 256

\* C38: right after reset the stack is empty at the top of page 1: the first
\* byte pushed by PHA or PHP is stored at 0x01FF, and TSX loads 0xFF into X
\* right after reset and 0xFE after one push.
C38_StackTop ==
    /\ ((Stepped(\h48) \/ Stepped(\h08))
            /\ ev.pre.stack_pointer = STACK_RESET) =>
            /\ run = "running"
            /\ cpu_vram = Put(ev.pre.cpu_vram, \h01FF, read_mem(CPU, \h01FF))
            /\ Stepped(\h48) =>
                    read_mem(CPU, \h01FF) = ev.pre.register_accumulator
    /\ (Stepped(\hBA) /\ ev.pre.stack_pointer = STACK_RESET) =>
            /\ run = "running"
            /\ index_register_x = \hFF
    /\ (Stepped(\hBA) /\ ev.pre.stack_pointer = STACK_RESET - 1) =>
            /\ run = "running"
            /\ index_register_x = \hFE

\* C39: ROL and ROR on the accumulator, starting with the carry clear, rotate
\* within the 8 bits of A: ROL moves the old bit 7 into bit 0 and ROR the old
\* bit 0 into bit 7, and the carry ends equal to the moved bit (0x82 gives
\* 0x05 with C = 1 for ROL, 0x83 gives 0xC1 with C = 1 for ROR).
C39_RotateAccumulator ==
    /\ (Stepped(\h2A) /\ C_of(ev.pre.status) = 0) =>
            /\ run = "running"
            /\ register_accumulator =
                    ((ev.pre.register_accumulator * 2) % 256)
                        + Bit(ev.pre.register_accumulator, 7)
            /\ C_of(status) = Bit(ev.pre.register_accumulator, 7)
    /\ (Stepped(\h6A) /\ C_of(ev.pre.status) = 0) =>
            /\ run = "running"
            /\ register_accumulator =
                    (ev.pre.register_accumulator \div 2)
                        + 128 * Bit(ev.pre.register_accumulator, 0)
            /\ C_of(status) = Bit(ev.pre.register_accumulator, 0)

\* Z and N of the status register describe the byte result
ZNOf(result) ==
    /\ Z_of(status) = (IF result = 0 THEN 1 ELSE 0)
    /\ N_of(status) = (IF result >= \h80 THEN 1 ELSE 0)

\* C40: INX, INY, DEX, DEY, INC and DEC compute (value + 1) mod 256 or
\* (value - 1) mod 256 without aborting, with Z and N from the result; INC
\* and DEC change only the byte at the resolved address, Z and N, and leave
\* A, X, Y, C, V and SP unchanged.
C40_IncDecWrap ==
    /\ Stepped(\hE8) =>
            /\ run = "running"
            /\ index_register_x = (ev.pre.index_register_x + 1) % 256
            /\ ZNOf(index_register_x)
    /\ Stepped(\hC8) =>
            /\ run = "running"
            /\ index_register_y = (ev.pre.index_register_y + 1) % 256
            /\ ZNOf(index_register_y)
    /\ Stepped(\hCA) =>
            /\ run = "running"
            /\ index_register_x = (ev.pre.index_register_x - 1) % 256
            /\ ZNOf(index_register_x)
    /\ Stepped(\h88) =>
            /\ run = "running"
            /\ index_register_y = (ev.pre.index_register_y - 1) % 256
            /\ ZNOf(index_register_y)
    /\ (Stepped(\hE6) \/ Stepped(\hC6)) =>
            LET addr == read_mem(ev.pre, (ev.pre.program_counter + 1) % 65536)
                result == (read_mem(ev.pre, addr)
                            + (IF ev.code = \hE6 THEN 1 ELSE 255)) % 256
            IN  /\ run = "running"
                /\ cpu_vram = Put(ev.pre.cpu_vram, addr, result)
                /\ prg_rom = ev.pre.prg_rom
                /\ ZNOf(result)
                /\ BitAnd(status, \h7D) = BitAnd(ev.pre.status, \h7D)
                /\ register_accumulator = ev.pre.register_accumulator
                /\ index_register_x = ev.pre.index_register_x
                /\ index_register_y = ev.pre.index_register_y
                /\ stack_pointer = ev.pre.stack_pointer

====
